---------------------------- MODULE Spec2Model ----------------------------
(***************************************************************************)
(* A model of the skill normalizer, the skill extractor and the            *)
(* suitability scoring engine of the task allocation backend               *)
(* (core/services/skill_extractor.py, core/services/matching_engine.py,    *)
(* core/models.py).                                                        *)
(*                                                                         *)
(* Python strings are TLA+ strings: TLC evaluates Len, \o and SubSeq on    *)
(* them, so every string operation below works character by character.     *)
(* Python floats are exact rationals, held as integers over the common     *)
(* denominator Den (see the scoring section).                              *)
(***************************************************************************)
EXTENDS Integers, Sequences, FiniteSets, TLC

VARIABLES
  skill,           \* normalize_skill_key: the argument of the first call
  key,             \* normalize_skill_key: the key returned by the last call
  prev_key,        \* normalize_skill_key: the key returned by the call before
  applied,         \* normalize_skill_key: how many times it has been applied
  text,            \* extract_skills: the text argument
  min_confidence,  \* extract_skills: the threshold argument (hundredths)
  extracted,       \* extract_skills: the outcome of the call
  mention,         \* a skill mention and the way a text repeats it
  once,            \* extract_skills of the text that has the mention once
  thrice,          \* extract_skills of the text that has it three times
  employee,        \* calculate_suitability_score: the employee row
  task,            \* the task row: its priority and required skill names
  required_skills, \* calculate_suitability_score: the required_skills argument
  scored,          \* calculate_suitability_score: the outcome of the call
  employees,       \* find_best_matches: the Employee table, in query order
  limit,           \* find_best_matches: the limit argument
  min_score,       \* find_best_matches: the threshold (hundredths of a point)
  matches,         \* find_best_matches: the outcome of the call
  task_table,      \* the Task table: the status of each task row
  assignment_table, \* the TaskAssignment table: the status of each row
  txn,             \* assign_task: each request and its open transaction
  cv,              \* the CV row of the employee: status, file, extracted_text
  skill_table,     \* the Skill rows of the employee
  threads          \* upload_cv: the process_cv thread of each accepted upload

normVars == <<skill, key, prev_key, applied>>
extractVars == <<text, min_confidence, extracted>>
repeatVars == <<mention, once, thrice>>
scoreVars == <<employee, required_skills, scored>>
rankVars == <<employees, limit, min_score, matches>>
assignVars == <<task_table, assignment_table, txn>>
uploadVars == <<cv, skill_table, threads>>
vars == <<normVars, extractVars, repeatVars, scoreVars, rankVars, task, assignVars, uploadVars>>

(***************************************************************************)
(* Bounds of the model.                                                    *)
(***************************************************************************)
MaxRawLen == 3        \* longest noise string given to normalize_skill_key
MaxApply == 2         \* how many times the normalizer is re-applied
MaxMentions == 3      \* most skill mentions in one text
MaxRequired == 2      \* most required skill names of a task
MaxEmployees == 3     \* most rows of the Employee table
MaxLimit == 2         \* largest limit given to find_best_matches
MaxActive == 7        \* most active assignments of one employee

(***************************************************************************)
(* Python values that reach the API as arguments: a tag and a payload.     *)
(***************************************************************************)
PyNone == [t |-> "NoneType", v |-> ""]
PyStr(s) == [t |-> "str", v |-> s]
PyInt(n) == [t |-> "int", v |-> n]
PyList(q) == [t |-> "list", v |-> q]
PyFloat(c) == [t |-> "float", v |-> c]
PyBytes(s) == [t |-> "bytes", v |-> s]

\* bool(x): None, "", b"", 0 and [] are false.
Truthy(x) ==
  CASE x.t = "NoneType" -> FALSE
    [] x.t = "str" -> x.v # ""
    [] x.t = "int" -> x.v # 0
    [] x.t = "list" -> x.v # <<>>
    [] x.t = "float" -> x.v # 0
    [] x.t = "bytes" -> x.v # ""

(***************************************************************************)
(* Characters and string primitives (str and re of the standard library,   *)
(* over the ASCII characters the model's inputs are made of).              *)
(***************************************************************************)
Char(s, i) == SubSeq(s, i, i)

LOWERCASE == "abcdefghijklmnopqrstuvwxyz"
UPPERCASE == "ABCDEFGHIJKLMNOPQRSTUVWXYZ"
DIGITS == "0123456789"

LowerSet == {Char(LOWERCASE, i) : i \in 1..Len(LOWERCASE)}
UpperSet == {Char(UPPERCASE, i) : i \in 1..Len(UPPERCASE)}
DigitSet == {Char(DIGITS, i) : i \in 1..Len(DIGITS)}

\* str.isalnum() of one character, and the regex class \w (alphanumeric or "_").
IsAlnum(c) == c \in LowerSet \cup UpperSet \cup DigitSet
IsWord(c) == IsAlnum(c) \/ c = "_"

\* The regex class \s and the characters str.strip() removes.
WHITESPACE == {" ", "\t", "\n"}

LowerOf == [c \in UpperSet |-> Char(LOWERCASE, CHOOSE i \in 1..Len(UPPERCASE) : Char(UPPERCASE, i) = c)]
UpperOf == [c \in LowerSet |-> Char(UPPERCASE, CHOOSE i \in 1..Len(LOWERCASE) : Char(LOWERCASE, i) = c)]

\* str.lower(), character by character (the string is halved so that the
\* evaluation stays shallow on long texts).
RECURSIVE StrLower(_)
StrLower(s) ==
  IF Len(s) <= 1 THEN (IF s \in UpperSet THEN LowerOf[s] ELSE s)
  ELSE StrLower(SubSeq(s, 1, Len(s) \div 2)) \o StrLower(SubSeq(s, Len(s) \div 2 + 1, Len(s)))

\* str.upper()
RECURSIVE StrUpper(_)
StrUpper(s) ==
  IF Len(s) <= 1 THEN (IF s \in LowerSet THEN UpperOf[s] ELSE s)
  ELSE StrUpper(SubSeq(s, 1, Len(s) \div 2)) \o StrUpper(SubSeq(s, Len(s) \div 2 + 1, Len(s)))

\* str.capitalize(): first character upper-cased, the rest lower-cased.
StrCapitalize(s) ==
  IF s = "" THEN "" ELSE StrUpper(Char(s, 1)) \o StrLower(SubSeq(s, 2, Len(s)))

\* s without its leading characters of the class
LStrip(s, class) ==
  SubSeq(s,
         CHOOSE i \in 1..(Len(s) + 1) :
           /\ \A k \in 1..(i - 1) : Char(s, k) \in class
           /\ (i = Len(s) + 1 \/ Char(s, i) \notin class),
         Len(s))

\* s without its trailing characters of the class
RStrip(s, class) ==
  SubSeq(s, 1,
         CHOOSE i \in 0..Len(s) :
           /\ \A k \in (i + 1)..Len(s) : Char(s, k) \in class
           /\ (i = 0 \/ Char(s, i) \notin class))

\* str.strip()
StrStrip(s) == RStrip(LStrip(s, WHITESPACE), WHITESPACE)

\* t[i:].startswith(p), for a 1-based position i
HasAt(t, i, p) == i + Len(p) - 1 <= Len(t) /\ SubSeq(t, i, i + Len(p) - 1) = p

\* str.find(p) as a 1-based position, Len(s) + 1 if p does not occur.
Find(s, p) ==
  CHOOSE j \in 1..(Len(s) + 1) :
    /\ (j = Len(s) + 1 \/ HasAt(s, j, p))
    /\ \A k \in 1..(j - 1) : ~HasAt(s, k, p)

\* str.replace(old, new): left to right, non-overlapping (old is not empty).
RECURSIVE StrReplace(_, _, _)
StrReplace(s, old, new) ==
  IF Find(s, old) > Len(s) THEN s
  ELSE SubSeq(s, 1, Find(s, old) - 1) \o new
         \o StrReplace(SubSeq(s, Find(s, old) + Len(old), Len(s)), old, new)

\* re.sub(r"[class]", new, s): every character of the class is replaced.
RECURSIVE ReSubEach(_, _, _)
ReSubEach(s, class, new) ==
  IF Len(s) <= 1 THEN (IF s \in class THEN new ELSE s)
  ELSE ReSubEach(SubSeq(s, 1, Len(s) \div 2), class, new)
         \o ReSubEach(SubSeq(s, Len(s) \div 2 + 1, Len(s)), class, new)

\* The position of the first character of the class, Len(s) + 1 if there is none.
FindClass(s, class) ==
  CHOOSE j \in 1..(Len(s) + 1) :
    /\ (j = Len(s) + 1 \/ Char(s, j) \in class)
    /\ \A k \in 1..(j - 1) : Char(s, k) \notin class

\* re.sub(r"[class]+", new, s): every maximal run of the class is replaced.
RECURSIVE ReSubRuns(_, _, _)
ReSubRuns(s, class, new) ==
  IF FindClass(s, class) > Len(s) THEN s
  ELSE SubSeq(s, 1, FindClass(s, class) - 1) \o new
         \o ReSubRuns(LStrip(SubSeq(s, FindClass(s, class), Len(s)), class), class, new)

\* str(n) of an int.
RECURSIVE NatToStr(_)
NatToStr(n) ==
  IF n < 10 THEN Char(DIGITS, n + 1)
  ELSE NatToStr(n \div 10) \o Char(DIGITS, (n % 10) + 1)

IntToStr(n) == IF n < 0 THEN "-" \o NatToStr(0 - n) ELSE NatToStr(n)

\* str(x) of a list of strings: its repr, "['a', 'b']".
RECURSIVE ReprItems(_)
ReprItems(q) ==
  IF q = <<>> THEN ""
  ELSE "'" \o Head(q) \o "'" \o (IF Len(q) > 1 THEN ", " ELSE "") \o ReprItems(Tail(q))

\* str(x)
PyToStr(x) ==
  CASE x.t = "str" -> x.v
    [] x.t = "NoneType" -> "None"
    [] x.t = "int" -> IntToStr(x.v)
    [] x.t = "list" -> "[" \o ReprItems(x.v) \o "]"
    [] x.t = "bytes" -> "b'" \o x.v \o "'"

(***************************************************************************)
(* The vocabulary, alias and display tables of SkillExtractor.             *)
(***************************************************************************)
TECHNICAL_SKILLS ==
  {
    "python", "java", "javascript", "typescript", "c++", "c#", "c", "go", "rust", "kotlin",
    "swift", "php", "ruby", "scala", "r", "matlab", "perl", "shell", "bash", "powershell",
    "html", "css", "react", "vue", "angular", "svelte", "sveltekit", "node.js", "express",
    "django", "flask", "fastapi", "spring", "laravel", "asp.net", "jquery", "bootstrap",
    "sass", "less", "webpack", "vite", "tailwind", "redux", "next.js", "nuxt.js", "sql",
    "postgresql", "mysql", "mongodb", "redis", "oracle", "sqlite", "cassandra",
    "elasticsearch", "dynamodb", "neo4j", "snowflake", "bigquery", "aws", "azure", "gcp",
    "docker", "kubernetes", "jenkins", "git", "ci/cd", "terraform", "ansible", "linux",
    "unix", "nginx", "apache", "prometheus", "grafana", "machine learning",
    "deep learning", "artificial intelligence", "tensorflow", "pytorch", "scikit-learn",
    "pandas", "numpy", "data analysis", "data science", "nlp",
    "natural language processing", "xgboost", "lightgbm", "spark", "hadoop", "github",
    "gitlab", "bitbucket", "jira", "confluence", "slack", "agile", "scrum", "kanban",
    "figma", "sketch", "adobe", "photoshop", "illustrator", "postman", "swagger",
    "openapi", "testing", "unit testing", "integration testing", "test automation",
    "selenium", "jest", "pytest", "junit", "cypress", "kafka", "rabbitmq", "android",
    "ios", "react native", "flutter", "xamarin", "api", "rest", "graphql", "microservices",
    "devops", "tdd", "bdd", ".net", "ux", "ui", "ui/ux", "design", "research", "analytics",
    "documentation", "process mapping", "stakeholder management", "project management",
    "leadership", "mentoring", "etl", "data engineering"
  }

SKILL_ALIASES ==
  ("nodejs" :> "node.js")
  @@ ("node js" :> "node.js")
  @@ ("reactjs" :> "react")
  @@ ("react js" :> "react")
  @@ ("vuejs" :> "vue")
  @@ ("vue js" :> "vue")
  @@ ("nextjs" :> "next.js")
  @@ ("next js" :> "next.js")
  @@ ("nuxtjs" :> "nuxt.js")
  @@ ("nuxt js" :> "nuxt.js")
  @@ ("svelte kit" :> "sveltekit")
  @@ ("svelte-kit" :> "sveltekit")
  @@ ("c++" :> "c++")
  @@ ("cplusplus" :> "c++")
  @@ ("c plus plus" :> "c++")
  @@ ("c#" :> "c#")
  @@ ("c sharp" :> "c#")
  @@ ("dotnet" :> ".net")
  @@ ("dot net" :> ".net")
  @@ (".net" :> ".net")
  @@ ("asp net" :> "asp.net")
  @@ ("ci cd" :> "ci/cd")
  @@ ("ci-cd" :> "ci/cd")
  @@ ("ci / cd" :> "ci/cd")
  @@ ("restful" :> "rest")
  @@ ("rest api" :> "rest")
  @@ ("restful api" :> "rest")
  @@ ("postgres" :> "postgresql")
  @@ ("postgre" :> "postgresql")
  @@ ("mongo" :> "mongodb")
  @@ ("k8s" :> "kubernetes")
  @@ ("ml" :> "machine learning")
  @@ ("dl" :> "deep learning")
  @@ ("ai" :> "artificial intelligence")
  @@ ("ui ux" :> "ui/ux")
  @@ ("ux ui" :> "ui/ux")
  @@ ("js" :> "javascript")
  @@ ("ts" :> "typescript")
  @@ ("py" :> "python")

DISPLAY_NAMES ==
  ("javascript" :> "JavaScript")
  @@ ("typescript" :> "TypeScript")
  @@ ("node.js" :> "Node.js")
  @@ ("next.js" :> "Next.js")
  @@ ("nuxt.js" :> "Nuxt.js")
  @@ ("asp.net" :> "ASP.NET")
  @@ ("c++" :> "C++")
  @@ ("c#" :> "C#")
  @@ (".net" :> ".NET")
  @@ ("ci/cd" :> "CI/CD")
  @@ ("api" :> "API")
  @@ ("rest" :> "REST")
  @@ ("graphql" :> "GraphQL")
  @@ ("ui" :> "UI")
  @@ ("ux" :> "UX")
  @@ ("ui/ux" :> "UI/UX")
  @@ ("html" :> "HTML")
  @@ ("css" :> "CSS")
  @@ ("sql" :> "SQL")
  @@ ("nlp" :> "NLP")
  @@ ("aws" :> "AWS")
  @@ ("gcp" :> "GCP")
  @@ ("qa" :> "QA")
  @@ ("etl" :> "ETL")
  @@ ("ios" :> "iOS")
  @@ ("devops" :> "DevOps")
  @@ ("postgresql" :> "PostgreSQL")
  @@ ("mongodb" :> "MongoDB")
  @@ ("mysql" :> "MySQL")
  @@ ("xgboost" :> "XGBoost")
  @@ ("lightgbm" :> "LightGBM")
  @@ ("scikit-learn" :> "scikit-learn")
  @@ ("github" :> "GitHub")
  @@ ("gitlab" :> "GitLab")
  @@ ("bitbucket" :> "Bitbucket")

ACRONYMS ==
  {"api", "rest", "sql", "nlp", "ui", "ux", "qa", "aws", "gcp", "tdd", "bdd"}
AliasKeys == DOMAIN SKILL_ALIASES
AliasTargets == {SKILL_ALIASES[a] : a \in AliasKeys}

(***************************************************************************)
(* SkillExtractor.normalize_skill_key and normalize_skill_name.            *)
(***************************************************************************)
BRACKETS == {"(", ")", "[", "]", "{", "}"}

\* The steps of normalize_skill_key before the alias lookup, innermost first:
\* str(skill).strip().lower(); "&" becomes "and"; each bracket becomes a
\* space; runs of "_" become a space; runs of whitespace become one space
\* and the result is stripped; " / " becomes "/".

\* CleanSkillKey without the .strip() that follows the whitespace collapse.
CleanSkillKey_NoFinalStrip(s) ==
  StrReplace(
    ReSubRuns(
      ReSubRuns(
        ReSubEach(StrReplace(StrLower(StrStrip(s)), "&", "and"), BRACKETS, " "),
        {"_"}, " "),
      WHITESPACE, " "),
    " / ", "/")

\* CleanSkillKey blanking every punctuation character, not only brackets.
CleanSkillKey_StripPunct(s) ==
  StrReplace(
    StrStrip(
      ReSubRuns(
          ReSubRuns(
            ReSubEach(StrReplace(StrLower(StrStrip(s)), "&", "and"), BRACKETS \cup {".", "+", "#", "-"}, " "),
            {"_"}, " "),
          WHITESPACE, " ")),
    " / ", "/")

\* The cleaning steps of normalize_skill_key.
CleanSkillKey(s) ==
  StrReplace(
    StrStrip(
      ReSubRuns(
          ReSubRuns(
            ReSubEach(StrReplace(StrLower(StrStrip(s)), "&", "and"), BRACKETS, " "),
            {"_"}, " "),
          WHITESPACE, " ")),
    " / ", "/")

\* normalize_skill_key with every non-string argument treated as empty.
NormalizeSkillKey_NonStrEmpty(x) ==
  IF ~Truthy(x) \/ x.t # "str" THEN ""
  ELSE LET cleaned == CleanSkillKey(PyToStr(x))
       IN  IF cleaned \in AliasKeys THEN SKILL_ALIASES[cleaned] ELSE cleaned

\* normalize_skill_key(skill)
NormalizeSkillKey(x) ==
  IF ~Truthy(x) THEN ""
  ELSE LET cleaned == CleanSkillKey(PyToStr(x))
       IN  IF cleaned \in AliasKeys THEN SKILL_ALIASES[cleaned] ELSE cleaned

\* str.split(): the maximal runs of non-whitespace characters.
RECURSIVE StrSplit(_)
StrSplit(s) ==
  LET t == LStrip(s, WHITESPACE)
      n == CHOOSE i \in 0..Len(t) :
             /\ \A j \in 1..i : Char(t, j) \notin WHITESPACE
             /\ (i = Len(t) \/ Char(t, i + 1) \in WHITESPACE)
  IN  IF t = "" THEN <<>> ELSE <<SubSeq(t, 1, n)>> \o StrSplit(SubSeq(t, n + 1, Len(t)))

RECURSIVE JoinWith(_, _)
JoinWith(q, sep) ==
  IF q = <<>> THEN ""
  ELSE IF Len(q) = 1 THEN Head(q) ELSE Head(q) \o sep \o JoinWith(Tail(q), sep)

FormatPart(part) == IF part \in ACRONYMS THEN StrUpper(part) ELSE StrCapitalize(part)

NormalizeSkillName(x) ==
  LET k == NormalizeSkillKey(x)
      parts == StrSplit(k)
  IN  IF k = "" THEN ""
      ELSE IF k \in DOMAIN DISPLAY_NAMES THEN DISPLAY_NAMES[k]
      ELSE JoinWith([i \in 1..Len(parts) |-> FormatPart(parts[i])], " ")

(***************************************************************************)
(* A small regular-expression matcher for the header and compound          *)
(* patterns: a pattern is a sequence of literals, optional literals and    *)
(* whitespace runs (\s* is Ws(0), \s+ is Ws(1)).                           *)
(***************************************************************************)
Lit(s) == [k |-> "lit", s |-> s, min |-> 0]
Opt(s) == [k |-> "opt", s |-> s, min |-> 0]
Ws(n) == [k |-> "ws", s |-> "", min |-> n]

\* The position after the whitespace run that starts at position i.
SkipWs(t, i) == Len(t) + 1 - Len(LStrip(SubSeq(t, i, Len(t)), WHITESPACE))

\* re.match of the pattern at position i: the position after the match, or 0.
RECURSIVE MatchFrom(_, _, _)
MatchFrom(t, i, pat) ==
  IF pat = <<>> THEN i
  ELSE LET e == Head(pat)
           taken == IF HasAt(t, i, e.s) THEN MatchFrom(t, i + Len(e.s), Tail(pat)) ELSE 0
       IN  CASE e.k = "lit" -> taken
             [] e.k = "opt" -> IF taken # 0 THEN taken ELSE MatchFrom(t, i, Tail(pat))
             [] e.k = "ws" -> IF SkipWs(t, i) - i < e.min THEN 0
                              ELSE MatchFrom(t, SkipWs(t, i), Tail(pat))

\* The scan of finditer and findall over the candidate matches hits, each
\* <<start, position after the end>>: from position i on, the leftmost one
\* is taken and the scan resumes after it.
RECURSIVE PickMatches(_, _)
PickMatches(hits, i) ==
  LET ahead == {h \in hits : h[1] >= i}
      h == CHOOSE x \in ahead : \A y \in ahead : x[1] <= y[1]
  IN  IF ahead = {} THEN <<>> ELSE <<h>> \o PickMatches(hits, h[2])

\* re.finditer: the non-overlapping matches from position i on, left to right,
\* each as <<start, position after the end>>.
FindIter(t, pat, i) ==
  PickMatches({h \in {<<j, MatchFrom(t, j, pat)>> : j \in 1..Len(t)} : h[2] # 0}, i)

(***************************************************************************)
(* SkillExtractor.__init__ and _build_skills_pattern.                      *)
(***************************************************************************)
known_skill_keys == TECHNICAL_SKILLS \cup AliasTargets

\* The alternatives of skills_pattern: the vocabulary and the alias keys.
SurfaceForms == TECHNICAL_SKILLS \cup AliasKeys
FormLengths == {Len(f) : f \in SurfaceForms}

SetMax(S) == CHOOSE n \in S : \A m \in S : m <= n

\* The same without the two boundary conditions.
SkillMatchLen_NoBoundary(t, i) ==
  LET lens == {n \in FormLengths :
                 /\ i + n - 1 <= Len(t)
                 /\ SubSeq(t, i, i + n - 1) \in SurfaceForms}
  IN  IF lens = {} THEN 0 ELSE SetMax(lens)

\* The match of (?<!\w)(alternatives, longest first)(?!\w) at position i: the
\* length of the longest alternative found there between non-word boundaries,
\* or 0.
SkillMatchLen(t, i) ==
  LET lens == {n \in FormLengths :
                 /\ i + n - 1 <= Len(t)
                 /\ SubSeq(t, i, i + n - 1) \in SurfaceForms
                 /\ (i + n > Len(t) \/ ~IsWord(Char(t, i + n)))}
  IN  IF (i > 1 /\ IsWord(Char(t, i - 1))) \/ lens = {} THEN 0 ELSE SetMax(lens)

\* skills_pattern.findall(text_lower)
FindAllSkills(t, i) ==
  LET hits == {h \in {<<j, j + SkillMatchLen(t, j)>> : j \in 1..Len(t)} : h[2] > h[1]}
      found == PickMatches(hits, i)
  IN  [m \in 1..Len(found) |-> SubSeq(t, found[m][1], found[m][2] - 1)]

(***************************************************************************)
(* SkillExtractor._extract_skill_sections.                                 *)
(***************************************************************************)
skill_headers ==
  << <<Lit("skill"), Opt("s"), Ws(0), Lit(":")>>,
     <<Lit("technical"), Ws(1), Lit("skill"), Opt("s"), Ws(0), Lit(":")>>,
     <<Lit("competencie"), Opt("s"), Ws(0), Lit(":")>>,
     <<Lit("expertise"), Ws(0), Lit(":")>>,
     <<Lit("technologie"), Opt("s"), Ws(0), Lit(":")>>,
     <<Lit("tool"), Opt("s"), Ws(0), Lit(":")>> >>

\* The separators of re.split(r'[,;\n(bullet)\|]'); the bullet character is
\* outside the ASCII alphabet of the model's texts.
ITEM_SEPARATORS == {",", ";", "\n", "|"}

\* re.split on a character class: the pieces between separators.
SplitOn(s, class) ==
  LET seps == {j \in 1..Len(s) : Char(s, j) \in class}
      Sep(m) == IF m = 0 THEN 0
                ELSE IF m > Cardinality(seps) THEN Len(s) + 1
                ELSE CHOOSE j \in seps : Cardinality({x \in seps : x < j}) = m - 1
  IN  [m \in 1..(Cardinality(seps) + 1) |-> SubSeq(s, Sep(m - 1) + 1, Sep(m) - 1)]

\* item and 2 < len(item) < 50 and any(char.isalnum() for char in item)
LooksLikeSkill(item) ==
  /\ Len(item) > 2
  /\ Len(item) < 50
  /\ \E i \in 1..Len(item) : IsAlnum(Char(item, i))

\* The items kept from one section text, in order.
RECURSIVE KeepItems(_)
KeepItems(pieces) ==
  IF pieces = <<>> THEN <<>>
  ELSE LET item == StrStrip(Head(pieces))
       IN  (IF LooksLikeSkill(item) THEN <<item>> ELSE <<>>) \o KeepItems(Tail(pieces))

\* text[start_pos:start_pos + 500], start_pos the 1-based position after the header
SectionText(t, e) ==
  SubSeq(t, e, IF e + 500 - 1 <= Len(t) THEN e + 500 - 1 ELSE Len(t))

\* The items of every section one header pattern finds.
RECURSIVE SectionItems(_, _)
SectionItems(t, found) ==
  IF found = <<>> THEN <<>>
  ELSE KeepItems(SplitOn(SectionText(t, Head(found)[2]), ITEM_SEPARATORS))
         \o SectionItems(t, Tail(found))

\* The headers are matched with re.IGNORECASE: on the lower-cased text.
RECURSIVE AllSectionItems(_, _, _)
AllSectionItems(t, text_lower, headers) ==
  IF headers = <<>> THEN <<>>
  ELSE SectionItems(t, FindIter(text_lower, Head(headers), 1))
         \o AllSectionItems(t, text_lower, Tail(headers))

\* list(dict.fromkeys(q)): the first occurrence of each element, in order.
RECURSIVE DedupKeepOrder(_, _)
DedupKeepOrder(q, seen) ==
  IF q = <<>> THEN <<>>
  ELSE IF Head(q) \in seen THEN DedupKeepOrder(Tail(q), seen)
       ELSE <<Head(q)>> \o DedupKeepOrder(Tail(q), seen \cup {Head(q)})

ExtractSkillSections(t) ==
  LET deduped == DedupKeepOrder(AllSectionItems(t, StrLower(t), skill_headers), {})
  IN  SubSeq(deduped, 1, IF Len(deduped) < 25 THEN Len(deduped) ELSE 25)

(***************************************************************************)
(* SkillExtractor._extract_compound_skills.                                *)
(***************************************************************************)
compound_patterns ==
  << <<Lit("machine"), Ws(1), Lit("learning")>>,
     <<Lit("deep"), Ws(1), Lit("learning")>>,
     <<Lit("artificial"), Ws(1), Lit("intelligence")>>,
     <<Lit("natural"), Ws(1), Lit("language"), Ws(1), Lit("processing")>>,
     <<Lit("data"), Ws(1), Lit("science")>>,
     <<Lit("data"), Ws(1), Lit("analysis")>>,
     <<Lit("data"), Ws(1), Lit("engineering")>>,
     <<Lit("project"), Ws(1), Lit("management")>>,
     <<Lit("stakeholder"), Ws(1), Lit("management")>>,
     <<Lit("unit"), Ws(1), Lit("testing")>>,
     <<Lit("integration"), Ws(1), Lit("testing")>>,
     <<Lit("test"), Ws(1), Lit("automation")>>,
     <<Lit("react"), Ws(1), Lit("native")>>,
     <<Lit("node.js")>>,
     <<Lit("next.js")>>,
     <<Lit("nuxt.js")>>,
     <<Lit("ci/cd")>>,
     <<Lit("ui"), Ws(0), Lit("/"), Ws(0), Lit("ux")>> >>

\* set(found): the distinct matched substrings of text.lower().
MatchedStrings(t, pat) ==
  LET found == FindIter(t, pat, 1)
  IN  {SubSeq(t, found[j][1], found[j][2] - 1) : j \in 1..Len(found)}

CompoundMatches(t) ==
  LET text_lower == StrLower(t)
  IN  UNION {MatchedStrings(text_lower, compound_patterns[p]) : p \in 1..Len(compound_patterns)}

\* list(set(found)): the iteration order of a set of str is not fixed by the
\* language (string hashing is randomized per process), so every order of the
\* set is a possible result.
Orderings(S) ==
  {q \in [1..Cardinality(S) -> S] : \A i, j \in 1..Cardinality(S) : q[i] = q[j] => i = j}

ExtractCompoundSkills(t) == Orderings(CompoundMatches(t))

(***************************************************************************)
(* SkillExtractor.extract_skills.  found_skills, a dict in insertion       *)
(* order, is a sequence of entries; confidences are hundredths.            *)
(***************************************************************************)
IndexOfKey(found, k) ==
  IF \E i \in 1..Len(found) : found[i].key = k
  THEN CHOOSE i \in 1..Len(found) : found[i].key = k
  ELSE 0

NewEntry(k, confidence, count) ==
  [key |-> k, name |-> NormalizeSkillName(PyStr(k)),
   confidence_score |-> confidence, count |-> count]

Min(a, b) == IF a <= b THEN a ELSE b
Max(a, b) == IF a >= b THEN a ELSE b

\* Method 1: every match of the skills pattern counts once for its key.
RECURSIVE DirectPass(_, _)
DirectPass(found, ms) ==
  IF ms = <<>> THEN found
  ELSE LET k == NormalizeSkillKey(PyStr(Head(ms)))
           withKey == IF IndexOfKey(found, k) = 0
                      THEN Append(found, NewEntry(k, 80, 0))
                      ELSE found
           i == IndexOfKey(withKey, k)
       IN  IF k = "" THEN DirectPass(found, Tail(ms))
           ELSE DirectPass([withKey EXCEPT ![i].count = @ + 1], Tail(ms))

\* Method 2: every item of a skills section.
RECURSIVE SectionPass(_, _)
SectionPass(found, skills) ==
  IF skills = <<>> THEN found
  ELSE LET k == NormalizeSkillKey(PyStr(Head(skills)))
           base_confidence == IF k \in known_skill_keys THEN 90 ELSE 55
           i == IndexOfKey(found, k)
       IN  IF k = "" THEN SectionPass(found, Tail(skills))
           ELSE IF i = 0
           THEN SectionPass(Append(found, NewEntry(k, base_confidence, 1)), Tail(skills))
           ELSE SectionPass(
                  [found EXCEPT ![i].count = @ + 1,
                                ![i].confidence_score = Min(100, @ + 10)],
                  Tail(skills))

\* Method 3: every compound phrase whose key was not found before.
RECURSIVE CompoundPass(_, _)
CompoundPass(found, skills) ==
  IF skills = <<>> THEN found
  ELSE LET k == NormalizeSkillKey(PyStr(Head(skills)))
       IN  IF k = "" \/ IndexOfKey(found, k) # 0 THEN CompoundPass(found, Tail(skills))
           ELSE CompoundPass(Append(found, NewEntry(k, 60, 1)), Tail(skills))

\* Boost confidence for repeated mentions.
BoostRepeated(found) ==
  [i \in 1..Len(found) |->
     IF found[i].count > 1
     THEN [found[i] EXCEPT !.confidence_score =
             Min(100, @ + Min(15, 5 * (found[i].count - 1)))]
     ELSE found[i]]

\* The indices of keys in the order list.sort(reverse=True) puts them: larger
\* keys first, equal keys in their original order (the sort is stable).
SortedOrderDesc(keys) ==
  LET n == Len(keys)
      Before(i, j) == keys[i] > keys[j] \/ (keys[i] = keys[j] /\ i < j)
      Place(i) == 1 + Cardinality({j \in 1..n : Before(j, i)})
  IN  [p \in 1..n |-> CHOOSE i \in 1..n : Place(i) = p]

\* result.sort(key=lambda x: x['confidence_score'], reverse=True)
SortByConfidence(result) ==
  LET order == SortedOrderDesc([i \in 1..Len(result) |-> result[i].confidence_score])
  IN  [p \in 1..Len(result) |-> result[order[p]]]

\* A variant of the last step that returns the entries in insertion order.
FilterAndSort_Unsorted(found, minc) ==
  LET kept == SelectSeq(found, LAMBDA e : e.confidence_score >= minc)
  IN  [i \in 1..Len(kept) |->
         [name |-> kept[i].name,
          confidence_score |-> Min(100, kept[i].confidence_score)]]

\* Filter by confidence, cap at 1.0 and sort.
FilterAndSort(found, minc) ==
  LET kept == SelectSeq(found, LAMBDA e : e.confidence_score >= minc)
      result == [i \in 1..Len(kept) |->
                   [name |-> kept[i].name,
                    confidence_score |-> Min(100, kept[i].confidence_score)]]
  IN  SortByConfidence(result)

Returned(value) == [status |-> "returned", value |-> value, error |-> ""]
Raised(error) == [status |-> "raised", value |-> <<>>, error |-> error]

\* found_skills after the three passes and the boost.
FoundSkills(t, compound) ==
  BoostRepeated(
    CompoundPass(
      SectionPass(DirectPass(<<>>, FindAllSkills(StrLower(t), 1)), ExtractSkillSections(t)),
      compound))

\* The exception the first pass raises, "" when it raises none:
\* skills_pattern is compiled from a str, and findall with it on bytes
\* raises TypeError.
DirectPassError(t) == IF t.t = "bytes" THEN "TypeError" ELSE ""

\* extract_skills(text, min_confidence), with compound the list that
\* _extract_compound_skills returned.  text.lower() raises AttributeError
\* for a value that has no such method; no statement of extract_skills
\* handles an exception, so one raised in a pass leaves the call.
ExtractSkills(t, minc, compound) ==
  IF ~Truthy(t) THEN Returned(<<>>)
  ELSE IF t.t \notin {"str", "bytes"} THEN Raised("AttributeError")
  ELSE IF DirectPassError(t) # "" THEN Raised(DirectPassError(t))
  ELSE Returned(FilterAndSort(FoundSkills(t.v, compound), minc))

\* The lists _extract_compound_skills can return for the argument.
CompoundResults(t) ==
  IF Truthy(t) /\ t.t = "str" THEN ExtractCompoundSkills(t.v) ELSE {<<>>}

(***************************************************************************)
(* Numbers.  A Python float is an exact rational n / Den held as the       *)
(* integer n; Den is divisible by every denominator the engine produces    *)
(* within the bounds (hundredths of hundredths of the confidences and      *)
(* weights, twice a token-union size, a number of required skills), so     *)
(* every \div below is exact.  Confidences and weights are hundredths;     *)
(* a suitability score is hundredths of a point (100.00 is 10000).         *)
(***************************************************************************)
RECURSIVE Gcd(_, _)
Gcd(a, b) == IF b = 0 THEN a ELSE Gcd(b, a % b)

RECURSIVE LcmUpTo(_)
LcmUpTo(n) == IF n <= 1 THEN 1 ELSE (LcmUpTo(n - 1) \div Gcd(LcmUpTo(n - 1), n)) * n

\* A variant that does not bound its argument.
Clamp_None(lo, hi, x) == x

\* max(lo, min(hi, x))
Clamp(lo, hi, x) == Max(lo, Min(hi, x))

(***************************************************************************)
(* core/models.py: the rows the engine reads.                              *)
(***************************************************************************)
\* TaskAssignment.status values that count toward the workload
ACTIVE_STATUSES == {"ASSIGNED", "IN_PROGRESS", "BLOCKED"}

\* A variant that counts every assignment, whatever its status.
CurrentWorkload_AllAssignments(e) == Min(100, (Len(e.assignments) * 100) \div 5)

\* Employee.current_workload, a percentage: min(100, active_tasks / 5 * 100)
CurrentWorkload(e) ==
  LET active_tasks == Cardinality({i \in 1..Len(e.assignments) :
                                     e.assignments[i] \in ACTIVE_STATUSES})
  IN  Min(100, (active_tasks * 100) \div 5)

(***************************************************************************)
(* MatchingEngine.                                                         *)
(***************************************************************************)
weights_by_priority ==
  ("HIGH" :> [skill |-> 60, coverage |-> 15, experience |-> 15, workload |-> 10])
  @@ ("MEDIUM" :> [skill |-> 55, coverage |-> 15, experience |-> 10, workload |-> 20])
  @@ ("LOW" :> [skill |-> 45, coverage |-> 15, experience |-> 10, workload |-> 30])

\* A variant that looks the priority up as written and falls back to LOW.
GetWeights_AsWritten(priority) ==
  IF ~Truthy(priority) THEN weights_by_priority["LOW"]
  ELSE IF priority.v \in DOMAIN weights_by_priority
       THEN weights_by_priority[priority.v]
       ELSE weights_by_priority["LOW"]

\* _get_weights(priority)
GetWeights(priority) ==
  IF ~Truthy(priority) THEN weights_by_priority["MEDIUM"]
  ELSE IF StrUpper(priority.v) \in DOMAIN weights_by_priority
       THEN weights_by_priority[StrUpper(priority.v)]
       ELSE weights_by_priority["MEDIUM"]

\* _normalize_required_skills(required_skills): the non-empty keys, first
\* occurrences only, in order.
RECURSIVE RequiredKeys(_)
RequiredKeys(q) ==
  IF q = <<>> THEN <<>>
  ELSE LET k == NormalizeSkillKey(PyStr(Head(q)))
       IN  (IF k # "" THEN <<k>> ELSE <<>>) \o RequiredKeys(Tail(q))

NormalizeRequiredSkills(required) ==
  DedupKeepOrder(RequiredKeys(IF Truthy(required) THEN required.v ELSE <<>>), {})

\* A variant without the floor of manual records.
RecordConfidence_NoManualFloor(record) ==
  Clamp(0, 100, IF Truthy(record.confidence_score) THEN record.confidence_score.v ELSE 0)

\* The confidence a skill record contributes to the profile.
RecordConfidence(record) ==
  LET confidence == Clamp(0, 100, IF Truthy(record.confidence_score)
                                  THEN record.confidence_score.v ELSE 0)
  IN  IF record.source = "MANUAL" THEN Max(confidence, 90) ELSE confidence

\* A variant keyed by the lower-cased names, without the alias table.
BuildSkillProfile_RawKeys(e) ==
  LET keyed == {r \in e.skill_set : StrLower(StrStrip(r.name)) # ""}
      keys == {StrLower(StrStrip(r.name)) : r \in keyed}
  IN  [k \in keys |->
         SetMax({RecordConfidence(r) : r \in {x \in keyed : StrLower(StrStrip(x.name)) = k}})]

\* _build_skill_profile(employee): key -> the largest confidence of the
\* records with that key (the loop keeps a running maximum per key).
BuildSkillProfile(e) ==
  LET keyed == {<<NormalizeSkillKey(PyStr(r.name)), RecordConfidence(r)>> : r \in e.skill_set}
      keys == {p[1] : p \in keyed} \ {""}
  IN  [k \in keys |-> SetMax({p[2] : p \in {x \in keyed : x[1] = k}})]

\* _tokenize_skill(skill): the runs of [a-z0-9] of the lower-cased skill that
\* have at least two characters, as a set.
RECURSIVE TokenRuns(_, _)
TokenRuns(s, run) ==
  IF s = "" THEN {run}
  ELSE IF Char(s, 1) \in LowerSet \cup DigitSet
       THEN TokenRuns(SubSeq(s, 2, Len(s)), run \o Char(s, 1))
       ELSE {run} \cup TokenRuns(SubSeq(s, 2, Len(s)), "")

TokenizeSkill(s) == {tok \in TokenRuns(StrLower(s), "") : Len(tok) >= 2}

\* The skill names of the model's employees and tasks (the inputs below draw
\* from them), and the largest len(required_tokens | employee_tokens) they
\* can produce.
SkillNames == {"ReactJS", "react", "React Native", "()", "python", "sql", "React Redux"}
RequiredNames == {"reactjs", "react  native", "[]"}
ListedRequired == <<"python", "sql">>
MaxTokenUnion ==
  SetMax({Cardinality(TokenizeSkill(NormalizeSkillKey(PyStr(a)))
                        \cup TokenizeSkill(NormalizeSkillKey(PyStr(b)))) :
            a \in RequiredNames \cup {ListedRequired[i] : i \in DOMAIN ListedRequired},
            b \in SkillNames} \cup {1})

\* The common denominator of the engine's floats.
Den == 2000000 * LcmUpTo(MaxTokenUnion) * LcmUpTo(MaxRequired)

\* The same with the base ignored: the bounded confidence itself.
ConfidenceToScore_NoBase(confidence, base) ==
  (100 * Clamp(0, 100, confidence)) * (Den \div 10000)

\* The same with the sign of the confidence term slipped.
ConfidenceToScore_SignSlip(confidence, base) ==
  (base * 100 - (100 - base) * Clamp(0, 100, confidence)) * (Den \div 10000)

\* _confidence_to_score(confidence, base): base + (1 - base) * bounded
ConfidenceToScore(confidence, base) ==
  (base * 100 + (100 - base) * Clamp(0, 100, confidence)) * (Den \div 10000)

\* The token sets of the profile's keys, as <<key, tokens>> pairs.
ProfileTokens(skill_profile) == {<<k, TokenizeSkill(k)>> : k \in DOMAIN skill_profile}

\* A variant that accepts a token overlap from 0.3.
MatchSkill_LooseOverlap(required_skill, skill_profile) ==
  IF required_skill \in DOMAIN skill_profile
  THEN ConfidenceToScore(skill_profile[required_skill], 45)
  ELSE LET required_tokens == TokenizeSkill(required_skill)
           Shared(p) == Cardinality(required_tokens \cap p[2])
           Joined(p) == Cardinality(required_tokens \cup p[2])
           candidates == {p \in ProfileTokens(skill_profile) :
                            p[2] # {} /\ 100 * Shared(p) >= 30 * Joined(p)}
           Score(p) ==
             (ConfidenceToScore(skill_profile[p[1]], 30) \div (2 * Joined(p)))
               * (Joined(p) + Shared(p))
       IN  IF required_tokens = {} \/ candidates = {} THEN 0
           ELSE SetMax({Score(p) : p \in candidates})

\* _match_skill(required_skill, skill_profile)
MatchSkill(required_skill, skill_profile) ==
  IF required_skill \in DOMAIN skill_profile
  THEN ConfidenceToScore(skill_profile[required_skill], 45)
  ELSE LET required_tokens == TokenizeSkill(required_skill)
           Shared(p) == Cardinality(required_tokens \cap p[2])
           Joined(p) == Cardinality(required_tokens \cup p[2])
           candidates == {p \in ProfileTokens(skill_profile) :
                            p[2] # {} /\ 100 * Shared(p) >= 34 * Joined(p)}
           \* similarity * _confidence_to_score(confidence, base=0.3),
           \* similarity = 0.5 + 0.5 * overlap
           Score(p) ==
             (ConfidenceToScore(skill_profile[p[1]], 30) \div (2 * Joined(p)))
               * (Joined(p) + Shared(p))
       IN  IF required_tokens = {} \/ candidates = {} THEN 0
           ELSE SetMax({Score(p) : p \in candidates})

\* A variant that returns the confidence of the overlapping key as it is.
BestConfidenceForSkill_Unscaled(required_skill, skill_profile) ==
  IF required_skill \in DOMAIN skill_profile
  THEN skill_profile[required_skill] * (Den \div 100)
  ELSE LET required_tokens == TokenizeSkill(required_skill)
           Shared(p) == Cardinality(required_tokens \cap p[2])
           Joined(p) == Cardinality(required_tokens \cup p[2])
           candidates == {p \in ProfileTokens(skill_profile) :
                            p[2] # {} /\ 2 * Shared(p) >= Joined(p)}
       IN  IF required_tokens = {} \/ candidates = {} THEN 0
           ELSE SetMax({(Den \div 100) * skill_profile[p[1]] : p \in candidates})

\* _best_confidence_for_skill(required_skill, skill_profile)
BestConfidenceForSkill(required_skill, skill_profile) ==
  IF required_skill \in DOMAIN skill_profile
  THEN skill_profile[required_skill] * (Den \div 100)
  ELSE LET required_tokens == TokenizeSkill(required_skill)
           Shared(p) == Cardinality(required_tokens \cap p[2])
           Joined(p) == Cardinality(required_tokens \cup p[2])
           candidates == {p \in ProfileTokens(skill_profile) :
                            p[2] # {} /\ 2 * Shared(p) >= Joined(p)}
           \* confidence * overlap
           Confidence(p) ==
             (Den \div (100 * Joined(p))) * skill_profile[p[1]] * Shared(p)
       IN  IF required_tokens = {} \/ candidates = {} THEN 0
           ELSE SetMax({Confidence(p) : p \in candidates})

RECURSIVE SumSeq(_)
SumSeq(q) == IF q = <<>> THEN 0 ELSE Head(q) + SumSeq(Tail(q))

\* _calculate_skill_match_score(skill_profile, required_skills)
CalculateSkillMatchScore(skill_profile, required) ==
  IF required = <<>> THEN Den
  ELSE SumSeq([i \in 1..Len(required) |-> MatchSkill(required[i], skill_profile)])
         \div Len(required)

\* _calculate_coverage_score(skill_profile, required_skills)
CalculateCoverageScore(skill_profile, required) ==
  IF required = <<>> THEN Den
  ELSE LET matched == Cardinality({i \in 1..Len(required) :
                                     2 * MatchSkill(required[i], skill_profile) >= Den})
       IN  (Den \div Len(required)) * matched

\* The same with the neutral 0.5 also when no required skill has a
\* confidence.
CalculateExperienceScore_Neutral(skill_profile, required) ==
  LET confidences ==
        SelectSeq([i \in 1..Len(required) |->
                     BestConfidenceForSkill(required[i], skill_profile)],
                  LAMBDA c : c > 0)
  IN  IF required = <<>> \/ confidences = <<>> THEN 50 * (Den \div 100)
      ELSE SumSeq(confidences) \div Len(confidences)

\* _calculate_experience_score(skill_profile, required_skills)
CalculateExperienceScore(skill_profile, required) ==
  LET confidences ==
        SelectSeq([i \in 1..Len(required) |->
                     BestConfidenceForSkill(required[i], skill_profile)],
                  LAMBDA c : c > 0)
  IN  IF required = <<>> THEN 50 * (Den \div 100)
      ELSE IF confidences = <<>> THEN 30 * (Den \div 100)
      ELSE SumSeq(confidences) \div Len(confidences)

\* The same without the scaling of high workloads.
AvailabilityScore_NoPenalty(current_workload) ==
  Clamp(0, Den, (100 - current_workload) * 100 * (Den \div 10000))

\* _calculate_workload_score from the workload it read: the availability
\* 1 - workload/100, scaled by 0.7 from 90% and by 0.85 from 80%.
AvailabilityScore(current_workload) ==
  Clamp(0, Den,
        (100 - current_workload)
          * (IF current_workload >= 90 THEN 70 ELSE IF current_workload >= 80 THEN 85 ELSE 100)
          * (Den \div 10000))

\* _calculate_workload_score(employee)
CalculateWorkloadScore(e) == AvailabilityScore(CurrentWorkload(e))

\* A variant that blends the four scores even when nothing is required.
CalculateTotalScore_AlwaysBlend(e, normalized_required, skill_profile, weights) ==
  Clamp(0, Den,
    (CalculateSkillMatchScore(skill_profile, normalized_required) \div 100) * weights.skill
    + (CalculateCoverageScore(skill_profile, normalized_required) \div 100) * weights.coverage
    + (CalculateExperienceScore(skill_profile, normalized_required) \div 100) * weights.experience
    + (CalculateWorkloadScore(e) \div 100) * weights.workload)

\* _calculate_total_score(employee, normalized_required, skill_profile, weights)
CalculateTotalScore(e, normalized_required, skill_profile, weights) ==
  IF normalized_required = <<>> THEN CalculateWorkloadScore(e)
  ELSE Clamp(0, Den,
         (CalculateSkillMatchScore(skill_profile, normalized_required) \div 100) * weights.skill
         + (CalculateCoverageScore(skill_profile, normalized_required) \div 100) * weights.coverage
         + (CalculateExperienceScore(skill_profile, normalized_required) \div 100) * weights.experience
         + (CalculateWorkloadScore(e) \div 100) * weights.workload)

\* round(total_score * 100, 2), in hundredths of a point: the nearest
\* hundredth.  A total that lies exactly halfway between two hundredths has
\* no exact binary float; the float the engine holds lies a hair to one side
\* or the other, so either neighbour can be returned.
RoundScore(total_score) ==
  LET unit == Den \div 10000
      q == total_score \div unit
      r == total_score % unit
  IN  IF 2 * r = unit THEN {q, q + 1}
      ELSE IF 2 * r > unit THEN {q + 1} ELSE {q}

\* calculate_suitability_score(employee, task, required_skills): the scores
\* the call can return.
CalculateSuitabilityScore(e, tk, required) ==
  RoundScore(CalculateTotalScore(e,
                                 NormalizeRequiredSkills(required),
                                 BuildSkillProfile(e),
                                 GetWeights(tk.priority)))

\* A variant that lists every required skill with a match above 0.
GetMatchingSkills_AnyMatch(required, skill_profile) ==
  LET hits == SelectSeq(required, LAMBDA r : MatchSkill(r, skill_profile) > 0)
  IN  [i \in 1..Len(hits) |-> NormalizeSkillName(PyStr(hits[i]))]

\* _get_matching_skills(required_skills, skill_profile)
GetMatchingSkills(required, skill_profile) ==
  LET hits == SelectSeq(required, LAMBDA r : 2 * MatchSkill(r, skill_profile) >= Den)
  IN  [i \in 1..Len(hits) |-> NormalizeSkillName(PyStr(hits[i]))]

\* The rounded scores find_best_matches can compute for the employees, one
\* per row.
EmployeeScores(all_employees, tk) ==
  LET normalized_required == NormalizeRequiredSkills(PyList(tk.required_skills))
      weights == GetWeights(tk.priority)
      choices == [i \in 1..Len(all_employees) |->
                    RoundScore(CalculateTotalScore(all_employees[i], normalized_required,
                                                   BuildSkillProfile(all_employees[i]),
                                                   weights))]
  IN  {scores \in [1..Len(all_employees) -> UNION {choices[i] : i \in 1..Len(all_employees)}] :
         \A i \in 1..Len(all_employees) : scores[i] \in choices[i]}

\* The entry find_best_matches builds for one employee.
MatchEntry(e, score, normalized_required) ==
  [employee_id |-> e.id,
   suitability_score |-> score,
   matching_skills |-> GetMatchingSkills(normalized_required, BuildSkillProfile(e)),
   current_workload |-> CurrentWorkload(e)]

\* A variant of the sort that puts the later of two equal scores first.
SortByScore_TiesReversed(ms) ==
  [p \in 1..Len(ms) |->
     ms[CHOOSE i \in 1..Len(ms) :
          p = 1 + Cardinality({j \in 1..Len(ms) :
                                 \/ ms[j].suitability_score > ms[i].suitability_score
                                 \/ (ms[j].suitability_score = ms[i].suitability_score /\ j > i)})]]

\* matches.sort(key=lambda x: x["suitability_score"], reverse=True)
SortByScore(ms) ==
  LET order == SortedOrderDesc([i \in 1..Len(ms) |-> ms[i].suitability_score])
  IN  [p \in 1..Len(ms) |-> ms[order[p]]]

\* A variant that keeps the whole list.
SliceTo_All(q, n) == q

\* matches[:limit]
SliceTo(q, n) ==
  IF n >= 0 THEN SubSeq(q, 1, Min(n, Len(q))) ELSE SubSeq(q, 1, Max(0, Len(q) + n))

\* The employees that pass the min_score filter, in queryset order.
QualifyingMatches(all_employees, scores, normalized_required, mins) ==
  SelectSeq([i \in 1..Len(all_employees) |->
               MatchEntry(all_employees[i], scores[i], normalized_required)],
            LAMBDA m : m.suitability_score >= mins)

\* find_best_matches(task, limit, min_score) over the Employee table, with
\* scores the rounded score computed for each row.
FindBestMatches(all_employees, tk, n, mins, scores) ==
  SliceTo(SortByScore(QualifyingMatches(all_employees, scores,
                                        NormalizeRequiredSkills(PyList(tk.required_skills)),
                                        mins)),
          n)

(***************************************************************************)
(* Inputs of the normalizer: every alias key and alias target, each also   *)
(* decorated with the noise the cleaning steps remove, every string of     *)
(* noise characters up to MaxRawLen, and some non-string values.           *)
(***************************************************************************)
NoiseAlphabet == {"a", "B", " ", "_", "(", "&", "/"}

RECURSIVE StringsOfLen(_, _)
StringsOfLen(alphabet, n) ==
  IF n = 0 THEN {""}
  ELSE {c \o s : c \in alphabet, s \in StringsOfLen(alphabet, n - 1)}

NoiseStrings == UNION {StringsOfLen(NoiseAlphabet, n) : n \in 0..MaxRawLen}

Decorated(f) ==
  { f, StrUpper(f), StrCapitalize(f), "  " \o f \o "\n", "(" \o f \o ")", "[" \o f \o "] ",
    StrReplace(f, " ", "_"), StrReplace(f, " ", " \t "), StrReplace(f, "/", " / "),
    f \o " & " \o f }

RawSkillStrings == NoiseStrings \cup UNION {Decorated(f) : f \in AliasKeys \cup AliasTargets}

SkillArguments ==
  {PyStr(s) : s \in RawSkillStrings}
    \cup {PyNone, PyInt(0), PyInt(42), PyInt(-7), PyList(<<>>), PyList(<<"Node JS">>),
          PyList(<<"a", "b">>)}

\* The variables of the calls a specification does not make.
NormIdle == skill = PyNone /\ key = "" /\ prev_key = "" /\ applied = 0
ExtractIdle == text = PyNone /\ min_confidence = 0 /\ extracted = [status |-> "idle"]
RepeatIdle == mention = <<>> /\ once = [status |-> "idle"] /\ thrice = [status |-> "idle"]
ScoreIdle == employee = <<>> /\ required_skills = PyNone /\ scored = [status |-> "idle"]
RankIdle == employees = <<>> /\ limit = 0 /\ min_score = 0 /\ matches = [status |-> "idle"]
TaskIdle == task = <<>>
AssignIdle == task_table = <<>> /\ assignment_table = <<>> /\ txn = <<>>
UploadIdle == cv = <<>> /\ skill_table = {} /\ threads = <<>>

InitNormalize ==
  /\ skill \in SkillArguments
  /\ key = ""
  /\ prev_key = ""
  /\ applied = 0
  /\ ExtractIdle /\ RepeatIdle /\ ScoreIdle /\ RankIdle /\ TaskIdle /\ AssignIdle /\ UploadIdle

\* key = normalize_skill_key(skill)
Normalize ==
  /\ applied = 0
  /\ key' = NormalizeSkillKey(skill)
  /\ prev_key' = key
  /\ applied' = 1
  /\ UNCHANGED <<skill, extractVars, repeatVars, scoreVars, rankVars, task, assignVars, uploadVars>>

\* key = normalize_skill_key(key): the normalizer applied to its own result
NormalizeAgain ==
  /\ applied >= 1
  /\ applied < MaxApply
  /\ key' = NormalizeSkillKey(PyStr(key))
  /\ prev_key' = key
  /\ applied' = applied + 1
  /\ UNCHANGED <<skill, extractVars, repeatVars, scoreVars, rankVars, task, assignVars, uploadVars>>

NextNormalize == Normalize \/ NormalizeAgain

SpecNormalize == InitNormalize /\ [][NextNormalize]_vars

(***************************************************************************)
(* Inputs of the extractor: an optional section header followed by up to   *)
(* MaxMentions skill mentions joined by a separator, blank texts, and      *)
(* values that are not strings.                                            *)
(***************************************************************************)
Mentions == {"ReactJS", "react", "machine  learning", "CI/CD", "Docker Swarm"}
TextPrefixes == {"", "Skills: "}
TextSeparators == {", ", " "}

RECURSIVE SeqsUpTo(_, _)
SeqsUpTo(S, n) ==
  IF n = 0 THEN {<<>>}
  ELSE SeqsUpTo(S, n - 1) \cup {Append(q, x) : q \in {r \in SeqsUpTo(S, n - 1) : Len(r) = n - 1}, x \in S}

MentionTexts ==
  {p \o JoinWith(q, s) : p \in TextPrefixes, s \in TextSeparators, q \in SeqsUpTo(Mentions, MaxMentions)}

\* Texts that are a skills header followed by a comma-separated list of
\* vocabulary skills.
SkillLists ==
  { [header |-> "Skills: ", items |-> <<"Python", "React", "SQL">>],
    [header |-> "Technical Skills: ", items |-> <<"Docker", "AWS">>],
    [header |-> "tools:", items |-> <<"Go", "ReactJS", "react", "C++">>] }

ListText(l) == l.header \o JoinWith(l.items, ", ")

\* Those texts, and texts with two compound phrases that no other pass finds.
ListedTexts ==
  {ListText(l) : l \in SkillLists}
    \cup {"machine  learning, data\nscience", "deep  learning and machine  learning"}

TextArguments ==
  {PyStr(s) : s \in MentionTexts \cup ListedTexts \cup {"", " ", " \n\t "}}
    \cup {PyNone, PyInt(0), PyInt(42), PyList(<<>>), PyList(<<"Python">>),
          PyBytes(""), PyBytes("Skills: Python")}

MinConfidences == {30, 85}

InitExtract ==
  /\ text \in TextArguments
  /\ min_confidence \in MinConfidences
  /\ extracted = [status |-> "idle"]
  /\ NormIdle /\ RepeatIdle /\ ScoreIdle /\ RankIdle /\ TaskIdle /\ AssignIdle /\ UploadIdle

\* extracted = extract_skills(text, min_confidence)
Extract ==
  /\ extracted.status = "idle"
  /\ \E compound \in CompoundResults(text) :
       extracted' = ExtractSkills(text, min_confidence, compound)
  /\ UNCHANGED <<text, min_confidence, normVars, repeatVars, scoreVars, rankVars, task, assignVars, uploadVars>>

NextExtract == Extract

SpecExtract == InitExtract /\ [][NextExtract]_vars

(***************************************************************************)
(* Repetition: a skill mention, and extract_skills called with its default  *)
(* threshold on the text that has the mention once and on the text that    *)
(* has it three times.                                                     *)
(***************************************************************************)
DEFAULT_MIN_CONFIDENCE == 30

RepeatForms == SurfaceForms \cup {"machine  learning", "ui / ux", "data\nscience", "docker swarm"}

RepeatMentions ==
  [form : RepeatForms, prefix : TextPrefixes, sep : TextSeparators]

TextOnce(m) == m.prefix \o m.form
TextThrice(m) == m.prefix \o m.form \o m.sep \o m.form \o m.sep \o m.form

InitRepeat ==
  /\ mention \in RepeatMentions
  /\ once = [status |-> "idle"]
  /\ thrice = [status |-> "idle"]
  /\ NormIdle /\ ExtractIdle /\ ScoreIdle /\ RankIdle /\ TaskIdle /\ AssignIdle /\ UploadIdle

\* once = extract_skills(text with one mention)
ExtractOnce ==
  /\ once.status = "idle"
  /\ \E compound \in CompoundResults(PyStr(TextOnce(mention))) :
       once' = ExtractSkills(PyStr(TextOnce(mention)), DEFAULT_MIN_CONFIDENCE, compound)
  /\ UNCHANGED <<mention, thrice, normVars, extractVars, scoreVars, rankVars, task, assignVars, uploadVars>>

\* thrice = extract_skills(text with three mentions)
ExtractThrice ==
  /\ thrice.status = "idle"
  /\ \E compound \in CompoundResults(PyStr(TextThrice(mention))) :
       thrice' = ExtractSkills(PyStr(TextThrice(mention)), DEFAULT_MIN_CONFIDENCE, compound)
  /\ UNCHANGED <<mention, once, normVars, extractVars, scoreVars, rankVars, task, assignVars, uploadVars>>

NextRepeat == ExtractOnce \/ ExtractThrice

SpecRepeat == InitRepeat /\ [][NextRepeat]_vars

(***************************************************************************)
(* Inputs of the scoring engine: an employee with any set of the skill     *)
(* records below (an alias pair, a manual record, a confidence outside     *)
(* [0, 1], a name with an empty key) and a list of assignments, and a task *)
(* with a priority and up to MaxRequired required skill names.             *)
(***************************************************************************)
SkillRecords ==
  { [name |-> "ReactJS", source |-> "CV", confidence_score |-> PyFloat(50)],
    [name |-> "react", source |-> "MANUAL", confidence_score |-> PyFloat(30)],
    [name |-> "React Native", source |-> "PORTFOLIO", confidence_score |-> PyFloat(150)],
    [name |-> "()", source |-> "CV", confidence_score |-> PyFloat(80)] }

\* No, three, four and six active assignments, beside finished ones.
AssignmentLists ==
  { <<"COMPLETED">>,
    <<"ASSIGNED", "CANCELLED", "IN_PROGRESS", "BLOCKED">>,
    <<"ASSIGNED", "IN_PROGRESS", "BLOCKED", "ASSIGNED">>,
    <<"ASSIGNED", "ASSIGNED", "ASSIGNED", "IN_PROGRESS", "BLOCKED", "BLOCKED", "COMPLETED">> }

\* Skill records an employee entered by hand, and a record whose key shares
\* one token of three with "react native".
ManualRecords ==
  { [name |-> "python", source |-> "MANUAL", confidence_score |-> PyFloat(90)],
    [name |-> "sql", source |-> "MANUAL", confidence_score |-> PyFloat(80)] }
ReduxRecord == [name |-> "React Redux", source |-> "CV", confidence_score |-> PyFloat(70)]

\* Rows whose extraction confidence is 0.0.
ZeroRecords ==
  { [name |-> "python", source |-> "CV", confidence_score |-> PyFloat(0)],
    [name |-> "React Native", source |-> "CV", confidence_score |-> PyFloat(0)] }

Employees ==
  [id : {1}, skill_set : SUBSET SkillRecords, assignments : AssignmentLists]
    \cup {[id |-> 1, skill_set |-> S, assignments |-> <<>>] :
            S \in SUBSET (ManualRecords \cup {ReduxRecord})}
    \cup {[id |-> 1, skill_set |-> {z}, assignments |-> <<>>] : z \in ZeroRecords}

Priorities == {PyNone, PyStr("HIGH"), PyStr("Medium"), PyStr("low"), PyStr("URGENT")}

Tasks ==
  [priority : Priorities, required_skills : SeqsUpTo(RequiredNames, MaxRequired)]
    \cup [priority : Priorities, required_skills : {ListedRequired}]

\* The required_skills argument: the view passes task.required_skills; None
\* stands for a task that has none.
RequiredArguments(tk) ==
  {PyList(tk.required_skills)} \cup (IF tk.required_skills = <<>> THEN {PyNone} ELSE {})

InitScore ==
  /\ employee \in Employees
  /\ task \in Tasks
  /\ required_skills \in RequiredArguments(task)
  /\ scored = [status |-> "idle"]
  /\ NormIdle /\ ExtractIdle /\ RepeatIdle /\ RankIdle /\ AssignIdle /\ UploadIdle

\* scored = calculate_suitability_score(employee, task, required_skills),
\* with the required keys and the skill profile the call built on the way.
Score ==
  /\ scored.status = "idle"
  /\ \E value \in CalculateSuitabilityScore(employee, task, required_skills) :
       scored' = [status |-> "returned",
                  value |-> value,
                  normalized_required |-> NormalizeRequiredSkills(required_skills),
                  skill_profile |-> BuildSkillProfile(employee)]
  /\ UNCHANGED <<employee, task, required_skills, normVars, extractVars, repeatVars, rankVars, assignVars, uploadVars>>

NextScore == Score

SpecScore == InitScore /\ [][NextScore]_vars

(***************************************************************************)
(* Inputs of the ranking: the Employee table holds up to MaxEmployees of   *)
(* the rows below, in any order.                                           *)
(***************************************************************************)
Roster ==
  { [id |-> 1, skill_set |-> {}, assignments |-> <<>>],
    [id |-> 2,
     skill_set |-> {[name |-> "ReactJS", source |-> "CV", confidence_score |-> PyFloat(50)]},
     assignments |-> <<"ASSIGNED", "COMPLETED", "BLOCKED">>],
    [id |-> 3,
     skill_set |-> {[name |-> "react", source |-> "MANUAL", confidence_score |-> PyFloat(30)],
                    [name |-> "React Native", source |-> "CV", confidence_score |-> PyFloat(70)]},
     assignments |-> <<>>],
    [id |-> 4,
     skill_set |-> {[name |-> "react", source |-> "CV", confidence_score |-> PyFloat(50)]},
     assignments |-> <<"IN_PROGRESS", "IN_PROGRESS">>] }

EmployeeTables ==
  {q \in SeqsUpTo(Roster, MaxEmployees) : \A i, j \in 1..Len(q) : i # j => q[i] # q[j]}

RankTasks ==
  [priority : {PyNone, PyStr("HIGH")},
   required_skills : {<<>>, <<"reactjs">>, <<"react  native", "reactjs">>}]

MinScores == {0, 5000}

InitRank ==
  /\ employees \in EmployeeTables
  /\ task \in RankTasks
  /\ limit \in 0..MaxLimit
  /\ min_score \in MinScores
  /\ matches = [status |-> "idle"]
  /\ NormIdle /\ ExtractIdle /\ RepeatIdle /\ ScoreIdle /\ AssignIdle /\ UploadIdle

\* matches = find_best_matches(task, limit, min_score)
FindMatches ==
  /\ matches.status = "idle"
  /\ \E scores \in EmployeeScores(employees, task) :
       matches' = [status |-> "returned",
                   value |-> FindBestMatches(employees, task, limit, min_score, scores)]
  /\ UNCHANGED <<employees, task, limit, min_score, normVars, extractVars, repeatVars, scoreVars, assignVars, uploadVars>>

NextRank == FindMatches

SpecRank == InitRank /\ [][NextRank]_vars

(***************************************************************************)
(* Claims about the scoring engine, checked under SpecScore and SpecRank.  *)
(***************************************************************************)

\* C1: for every employee, every task priority and every list of required
\* skills, calculate_suitability_score returns a value in [0, 100].
C1_ScoreInRange ==
  scored.status = "returned" => (scored.value >= 0 /\ scored.value <= 10000)

\* An exact match on a record whose stored confidence lies above 1.0, for an
\* employee with no active assignment, scored 100.
C1_Witness ==
  /\ scored.status = "returned"
  /\ scored.value = 10000
  /\ scored.normalized_required = <<"react native">>
  /\ \E r \in employee.skill_set : r.name = "React Native" /\ r.confidence_score.v > 100

\* C2: find_best_matches returns at most limit entries, none of them scoring
\* below min_score, sorted non-increasing by suitability score; each entry
\* is an employee of the table with a score the engine computes for it.
C2_RankContract ==
  matches.status = "returned" =>
    LET r == matches.value
    IN  /\ Len(r) <= limit
        /\ \A i \in 1..Len(r) : r[i].suitability_score >= min_score
        /\ \A i, j \in 1..Len(r) : i < j => r[i].suitability_score >= r[j].suitability_score
        /\ \A i \in 1..Len(r) :
             \E j \in 1..Len(employees) :
               /\ employees[j].id = r[i].employee_id
               /\ r[i].suitability_score
                    \in CalculateSuitabilityScore(employees[j], task, PyList(task.required_skills))

\* Of three employees the first scored below min_score, the other two
\* qualified, and the limit of one kept the better of them, the last row.
C2_Witness ==
  /\ matches.status = "returned"
  /\ [i \in 1..Len(employees) |-> employees[i].id] = <<1, 2, 3>>
  /\ task = [priority |-> PyStr("HIGH"), required_skills |-> <<"reactjs">>]
  /\ limit = 1
  /\ min_score = 5000
  /\ Len(matches.value) = 1
  /\ matches.value[1].employee_id = 3
  /\ matches.value[1].suitability_score = 9520

\* C3: when no required skill has a non-empty key, the score is
\* workload_score * 100 exactly, whatever the priority, and replacing the
\* employee's skill records by any others gives the same score.
C3_NoRequiredIsWorkload ==
  (scored.status = "returned" /\ scored.normalized_required = <<>>) =>
    /\ scored.value * (Den \div 10000) = CalculateWorkloadScore(employee)
    /\ \A records \in SUBSET SkillRecords :
         CalculateSuitabilityScore([employee EXCEPT !.skill_set = records], task, required_skills)
           = {scored.value}

\* A HIGH task whose two required names both have the empty key, scored for
\* an employee with skills and four active assignments: 17.00.
C3_Witness ==
  /\ scored.status = "returned"
  /\ required_skills = PyList(<<"[]", "[]">>)
  /\ task.priority = PyStr("HIGH")
  /\ employee.skill_set # {}
  /\ CurrentWorkload(employee) = 80
  /\ scored.value = 1700

\* C4: with at least one required skill the score is
\* round(100 * clamp01(w.skill * skillMatch + w.coverage * coverage
\* + w.experience * experience + w.workload * workload), 2), w being the row
\* HIGH 0.60/0.15/0.15/0.10, MEDIUM 0.55/0.15/0.10/0.20 or
\* LOW 0.45/0.15/0.10/0.30 of the task's priority, each row summing to 1.0,
\* and an unknown or missing priority uses the MEDIUM row.
C4_WeightedBlend ==
  /\ \A p \in DOMAIN weights_by_priority :
       weights_by_priority[p].skill + weights_by_priority[p].coverage
         + weights_by_priority[p].experience + weights_by_priority[p].workload = 100
  /\ (scored.status = "returned" /\ scored.normalized_required # <<>>) =>
       LET p == task.priority
           w == IF p.t = "str" /\ StrUpper(p.v) = "HIGH" THEN <<60, 15, 15, 10>>
                ELSE IF p.t = "str" /\ StrUpper(p.v) = "LOW" THEN <<45, 15, 10, 30>>
                ELSE <<55, 15, 10, 20>>
           skillMatch == CalculateSkillMatchScore(scored.skill_profile, scored.normalized_required)
           coverage == CalculateCoverageScore(scored.skill_profile, scored.normalized_required)
           experience == CalculateExperienceScore(scored.skill_profile, scored.normalized_required)
           workload == CalculateWorkloadScore(employee)
           blend == (skillMatch \div 100) * w[1] + (coverage \div 100) * w[2]
                      + (experience \div 100) * w[3] + (workload \div 100) * w[4]
       IN  scored.value \in RoundScore(Max(0, Min(Den, blend)))

\* A task of the unknown priority "URGENT" with two required skills, one
\* matched exactly and one by token overlap, scored with the MEDIUM row.
C4_Witness ==
  /\ scored.status = "returned"
  /\ task = [priority |-> PyStr("URGENT"), required_skills |-> <<"reactjs", "react  native">>]
  /\ employee.skill_set =
       {[name |-> "ReactJS", source |-> "CV", confidence_score |-> PyFloat(50)]}
  /\ CurrentWorkload(employee) = 60
  /\ scored.value = 5259

(***************************************************************************)
(* Claims about the normalizer, checked under SpecNormalize.               *)
(***************************************************************************)

\* C5: normalize_skill_key is idempotent: applying it to its own result
\* returns that result unchanged, for every argument.
C5_Idempotent == applied >= 2 => key = prev_key

\* A noisy spelling of an alias was cleaned, resolved through the alias table
\* and then normalized a second time.
C5_Witness ==
  /\ applied = 2
  /\ skill.t = "str"
  /\ skill.v \notin AliasKeys
  /\ prev_key \in AliasTargets
  /\ prev_key # skill.v
  /\ CleanSkillKey(skill.v) \in AliasKeys

\* C6: normalize_skill_key is alias-stable: every alias key of the table
\* normalizes to its target, and every alias target normalizes to itself.
C6_AliasStable ==
  (applied = 1 /\ skill.t = "str") =>
    /\ (skill.v \in AliasKeys => key = SKILL_ALIASES[skill.v])
    /\ (skill.v \in AliasTargets => key = skill.v)

\* "ci / cd" is an alias key that the cleaning steps rewrite before the lookup.
C6_Witness ==
  /\ applied = 1
  /\ skill = PyStr("ci / cd")
  /\ key = "ci/cd"
  /\ SKILL_ALIASES["nodejs"] = "node.js"

\* C7: a required skill whose raw name differs from a profile skill's raw
\* name but has the same key through the alias table is scored by the
\* exact-match branch, 0.45 + 0.55 * confidence.
C7_AliasExactBranch ==
  scored.status = "returned" =>
    LET raw == IF Truthy(required_skills) THEN required_skills.v ELSE <<>>
        required_keys == {<<raw[i], NormalizeSkillKey(PyStr(raw[i]))>> : i \in 1..Len(raw)}
        record_keys == {<<r.name, NormalizeSkillKey(PyStr(r.name))>> : r \in employee.skill_set}
    IN  \A a \in required_keys, b \in record_keys :
          (a[1] # b[1] /\ a[2] = b[2] /\ a[2] # "") =>
            /\ a[2] \in DOMAIN scored.skill_profile
            /\ MatchSkill(a[2], scored.skill_profile)
                 = (4500 + 55 * scored.skill_profile[a[2]]) * (Den \div 10000)

\* Required "reactjs" against the manual record "react": the profile holds
\* the key "react" at 0.9 and the match scores 0.945, not the 0.93 of a
\* full token overlap.
C7_Witness ==
  /\ scored.status = "returned"
  /\ required_skills = PyList(<<"reactjs">>)
  /\ employee.skill_set =
       {[name |-> "react", source |-> "MANUAL", confidence_score |-> PyFloat(30)]}
  /\ scored.skill_profile = ("react" :> 90)
  /\ MatchSkill("react", scored.skill_profile) = 945 * (Den \div 1000)
  /\ CurrentWorkload(employee) = 0
  /\ task.priority = PyStr("HIGH")
  /\ scored.value = 9520

(***************************************************************************)
(* Claims about the extractor, checked under SpecExtract and SpecRepeat.   *)
(***************************************************************************)

\* C8: the list extract_skills returns has no two entries with the same
\* normalized skill key, holds only entries whose confidence is at least
\* min_confidence, and is sorted non-increasing by confidence.
C8_DedupedFilteredSorted ==
  extracted.status = "returned" =>
    LET r == extracted.value
    IN  /\ \A i, j \in 1..Len(r) :
             i < j => /\ NormalizeSkillKey(PyStr(r[i].name)) # NormalizeSkillKey(PyStr(r[j].name))
                      /\ r[i].confidence_score >= r[j].confidence_score
        /\ \A i \in 1..Len(r) : r[i].confidence_score >= min_confidence

\* "react" and its alias "ReactJS" were both mentioned and returned as one
\* entry, ahead of an entry of lower confidence, while a third mention fell
\* below the threshold.
C8_Witness ==
  /\ extracted.status = "returned"
  /\ text = PyStr("Docker Swarm, ReactJS, react")
  /\ min_confidence = 85
  /\ Len(extracted.value) = 1
  /\ extracted.value[1] = [name |-> "React", confidence_score |-> 85]

\* C9: a text that mentions a skill three times yields a strictly higher
\* confidence for it than the text that mentions it once, and no returned
\* confidence exceeds 1.0.
C9_RepeatRaisesConfidence ==
  (once.status = "returned" /\ thrice.status = "returned") =>
    LET k == NormalizeSkillKey(PyStr(mention.form))
        Of(r) == {r[i].confidence_score :
                    i \in {j \in 1..Len(r) : NormalizeSkillKey(PyStr(r[j].name)) = k}}
    IN  /\ \A c1 \in Of(once.value) :
             /\ Of(thrice.value) # {}
             /\ \A c3 \in Of(thrice.value) : c3 > c1
        /\ \A i \in 1..Len(once.value) : once.value[i].confidence_score <= 100
        /\ \A i \in 1..Len(thrice.value) : thrice.value[i].confidence_score <= 100

\* C10: extract_skills returns the empty list, and does not raise, for empty
\* text, whitespace-only text, None and every value that is not a string.
C10_NonTextGivesEmpty ==
  (extracted.status # "idle" /\ (text.t # "str" \/ StrStrip(text.v) = "")) =>
    extracted = Returned(<<>>)

(***************************************************************************)
(* Arguments of the normalizer that are not strings (SpecNormalize).       *)
(***************************************************************************)

\* C11 as stated: normalize_skill_key returns "" for every empty argument
\* and for every argument that is not a string.
C11_NonStringGivesEmpty ==
  (applied = 1 /\ (skill.t # "str" \/ skill.v = "")) => key = ""

\* C11: normalize_skill_key returns "" for every falsy argument (None, "",
\* 0, []); an argument that is not a string and is truthy is converted with
\* str() and the key is the key of that string.
C11_FalsyEmptyElseStr ==
  applied = 1 =>
    /\ (~Truthy(skill) => key = "")
    /\ ((Truthy(skill) /\ skill.t # "str") =>
          /\ key = NormalizeSkillKey(PyStr(PyToStr(skill)))
          /\ key # "")

\* The list ["Node JS"] was normalized to the cleaned text of its repr.
C11_Witness ==
  /\ applied = 1
  /\ skill = PyList(<<"Node JS">>)
  /\ key = "'node js'"

(***************************************************************************)
(* A pass of extract_skills that raises (SpecExtract).                     *)
(***************************************************************************)

\* C12: the passes of extract_skills are isolated: when a pass raises,
\* extract_skills does not propagate the exception and returns the merged
\* result of the passes that did not raise.
C12_PassFailureIsolated ==
  (extracted.status # "idle" /\ Truthy(text) /\ DirectPassError(text) # "") =>
    extracted.status = "returned"

(***************************************************************************)
(* The order of entries of equal confidence (SpecExtract).                 *)
(***************************************************************************)

\* C13: extract_skills is deterministic, tie-breaking included: every
\* invocation with the same text and min_confidence returns the same
\* entries in the same order, so the list one invocation returned is the
\* list every order of _extract_compound_skills' result leads to.
C13_SameOrderEveryCall ==
  extracted.status = "returned" =>
    \A compound \in CompoundResults(text) :
      ExtractSkills(text, min_confidence, compound) = extracted

(***************************************************************************)
(* Workload and score (SpecScore).                                         *)
(***************************************************************************)

\* C14: of two employees with the same skill records scored against the
\* same task, the one with the higher workload gets the strictly lower
\* score; at workloads 95% and 50% the workload sub-scores are
\* (1 - 0.95) * 0.7 and (1 - 0.50) * 1.0, and the totals differ by the
\* difference of the sub-scores times the priority's workload weight (by the
\* difference itself when the task requires no skill).
C14_HigherWorkloadScoresLower ==
  /\ AvailabilityScore(95) = 35 * (Den \div 1000)
  /\ AvailabilityScore(50) = 500 * (Den \div 1000)
  /\ \A p \in Priorities :
       (AvailabilityScore(95) \div 100) * GetWeights(p).workload
         < (AvailabilityScore(50) \div 100) * GetWeights(p).workload
  /\ scored.status = "returned" =>
       \A a \in AssignmentLists :
         CurrentWorkload([employee EXCEPT !.assignments = a]) < CurrentWorkload(employee) =>
           /\ \A v \in CalculateSuitabilityScore([employee EXCEPT !.assignments = a],
                                                 task, required_skills) :
                scored.value < v
           /\ CalculateTotalScore([employee EXCEPT !.assignments = a],
                                  scored.normalized_required, scored.skill_profile,
                                  GetWeights(task.priority))
                - CalculateTotalScore(employee, scored.normalized_required,
                                      scored.skill_profile, GetWeights(task.priority))
              = ((CalculateWorkloadScore([employee EXCEPT !.assignments = a])
                    - CalculateWorkloadScore(employee)) \div 100)
                  * (IF scored.normalized_required = <<>> THEN 100
                     ELSE GetWeights(task.priority).workload)

\* An employee at workload 100%, in the 0.7 band, was scored for a HIGH task
\* that requires "reactjs"; the same records at workload 60% score higher.
C14_Witness ==
  /\ scored.status = "returned"
  /\ CurrentWorkload(employee) = 100
  /\ CalculateWorkloadScore(employee) = 0
  /\ task.priority = PyStr("HIGH")
  /\ required_skills = PyList(<<"reactjs">>)
  /\ employee.skill_set =
       {[name |-> "react", source |-> "MANUAL", confidence_score |-> PyFloat(30)]}
  /\ scored.value = 8520

\* C15 as stated: for a HIGH task requiring python and sql, an employee with
\* no active assignment and the manual records python 0.9 and sql 0.8
\* scores approximately 100.0 (within half a point of it).
C15_ManualPairScoresHundred ==
  (/\ scored.status = "returned"
   /\ task.priority = PyStr("HIGH")
   /\ required_skills = PyList(ListedRequired)
   /\ employee.skill_set = ManualRecords
   /\ CurrentWorkload(employee) = 0)
    => (scored.value >= 9950 /\ scored.value <= 10000)

\* C15: that employee scores 95.2: both keys are in the profile at 0.9 (the
\* manual floor lifts sql), each matches with 0.45 + 0.55 * 0.9 = 0.945, and
\* 0.6 * 0.945 + 0.15 * 1 + 0.15 * 0.9 + 0.1 * 1 = 0.952.
C15_ManualPairScore ==
  (/\ scored.status = "returned"
   /\ task.priority = PyStr("HIGH")
   /\ required_skills = PyList(ListedRequired)
   /\ employee.skill_set = ManualRecords
   /\ CurrentWorkload(employee) = 0)
    => /\ scored.skill_profile = ("python" :> 90 @@ "sql" :> 90)
       /\ CalculateSkillMatchScore(scored.skill_profile, scored.normalized_required)
            = 945 * (Den \div 1000)
       /\ CalculateCoverageScore(scored.skill_profile, scored.normalized_required) = Den
       /\ CalculateExperienceScore(scored.skill_profile, scored.normalized_required)
            = 9 * (Den \div 10)
       /\ CalculateWorkloadScore(employee) = Den
       /\ scored.value = 9520

\* The employee with the two manual records was scored for the HIGH task.
C15_Witness ==
  /\ scored.status = "returned"
  /\ task = [priority |-> PyStr("HIGH"), required_skills |-> ListedRequired]
  /\ required_skills = PyList(ListedRequired)
  /\ employee = [id |-> 1, skill_set |-> ManualRecords, assignments |-> <<>>]
  /\ scored.normalized_required = <<"python", "sql">>
  /\ scored.value = 9520

\* C16: scoring returns, and does not raise, for a missing or empty
\* required list and for an employee without skill records; for such an
\* employee and a task that requires at least one skill the sub-scores are
\* skill match 0, coverage 0 and experience 0.3, and the score is
\* 100 * (0.3 * w.experience + w.workload * workload score).
C16_NoRecordsDegrade ==
  scored.status # "idle" =>
    /\ scored.status = "returned"
    /\ (employee.skill_set = {} /\ scored.normalized_required # <<>>) =>
         /\ scored.skill_profile = <<>>
         /\ CalculateSkillMatchScore(scored.skill_profile, scored.normalized_required) = 0
         /\ CalculateCoverageScore(scored.skill_profile, scored.normalized_required) = 0
         /\ CalculateExperienceScore(scored.skill_profile, scored.normalized_required)
              = 3 * (Den \div 10)
         /\ scored.value * (Den \div 10000)
              = 30 * GetWeights(task.priority).experience * (Den \div 10000)
                + (CalculateWorkloadScore(employee) \div 100)
                    * GetWeights(task.priority).workload

\* An employee without records and with three active assignments was scored
\* for a HIGH task requiring two skills: 100 * (0.3 * 0.15 + 0.1 * 0.4) = 8.5.
C16_Witness ==
  /\ scored.status = "returned"
  /\ employee.skill_set = {}
  /\ CurrentWorkload(employee) = 60
  /\ task.priority = PyStr("HIGH")
  /\ required_skills = PyList(ListedRequired)
  /\ scored.value = 850

(***************************************************************************)
(* The order of the ranking (SpecRank).                                    *)
(***************************************************************************)

\* C17: find_best_matches returns the first limit entries of the stable
\* descending order of the employees whose score is at least min_score:
\* of two returned employees the one with the higher score comes first and
\* equal scores keep the table's order, and an employee that qualifies but
\* is not returned ranks behind every returned one.
C17_StableTopLimit ==
  matches.status = "returned" =>
    LET r == matches.value
        Row(m) == CHOOSE j \in 1..Len(employees) : employees[j].id = m.employee_id
        returned_rows == {Row(r[i]) : i \in 1..Len(r)}
        Scores(j) == CalculateSuitabilityScore(employees[j], task, PyList(task.required_skills))
        left_out == {j \in 1..Len(employees) :
                       j \notin returned_rows /\ \E v \in Scores(j) : v >= min_score}
    IN  /\ \A i \in 1..Len(r) : \E j \in 1..Len(employees) : employees[j].id = r[i].employee_id
        /\ \A i \in 1..Len(r) : r[i].suitability_score \in Scores(Row(r[i]))
        /\ \A i \in 1..Len(r) : r[i].suitability_score >= min_score
        /\ \A i, j \in 1..Len(r) :
             i < j => \/ r[i].suitability_score > r[j].suitability_score
                      \/ /\ r[i].suitability_score = r[j].suitability_score
                         /\ Row(r[i]) < Row(r[j])
        /\ left_out # {} => Len(r) = limit
        /\ \A j \in left_out : \A i \in 1..Len(r) :
             \E v \in Scores(j) :
               \/ v < r[i].suitability_score
               \/ (v = r[i].suitability_score /\ Row(r[i]) < j)

\* For a task without required skills the rows 3, 2, 1 score 100, 60, 100;
\* with limit 2 the two rows at 100 are returned, row 3 ahead of row 1 as
\* in the table, and row 2 is left out.
C17_Witness ==
  /\ matches.status = "returned"
  /\ [i \in 1..Len(employees) |-> employees[i].id] = <<3, 2, 1>>
  /\ task.required_skills = <<>>
  /\ limit = 2
  /\ min_score = 5000
  /\ [i \in 1..Len(matches.value) |-> matches.value[i].employee_id] = <<3, 1>>
  /\ matches.value[1].suitability_score = 10000
  /\ matches.value[2].suitability_score = 10000

(***************************************************************************)
(* A header and a list of vocabulary skills (SpecExtract).                 *)
(***************************************************************************)

\* C18: for a text that is a skills header followed by a comma-separated
\* list of vocabulary skills, extract_skills returns one entry for each
\* listed skill and no other, each with confidence at least 0.8, in
\* non-increasing order of confidence.
C18_ListedSkillsReturned ==
  (extracted.status # "idle" /\ min_confidence <= 80) =>
    \A l \in SkillLists :
      text = PyStr(ListText(l)) =>
        LET r == extracted.value
            listed == {NormalizeSkillKey(PyStr(l.items[i])) : i \in 1..Len(l.items)}
        IN  /\ listed \subseteq known_skill_keys
            /\ extracted.status = "returned"
            /\ Len(r) = Cardinality(listed)
            /\ {NormalizeSkillKey(PyStr(r[i].name)) : i \in 1..Len(r)} = listed
            /\ \A i \in 1..Len(r) : r[i].confidence_score >= 80
            /\ \A i, j \in 1..Len(r) :
                 i < j => r[i].confidence_score >= r[j].confidence_score

\* "Skills: Python, React, SQL": each skill is a direct match (0.8), an item
\* of the section (+0.1) and so counted twice (+0.05).
C18_Witness ==
  /\ extracted.status = "returned"
  /\ text = PyStr("Skills: Python, React, SQL")
  /\ min_confidence = 30
  /\ extracted.value = << [name |-> "Python", confidence_score |-> 95],
                          [name |-> "React", confidence_score |-> 95],
                          [name |-> "SQL", confidence_score |-> 95] >>

(***************************************************************************)
(* The skill profile and the match of one required skill (SpecScore).      *)
(***************************************************************************)

\* C19: the profile built for an employee maps each non-empty key of a
\* skill record to the largest, over the records with that key, of the
\* record's confidence clamped to [0,1] and raised to 0.9 for a MANUAL
\* record; every value is in [0,1], and a key with a MANUAL record has a
\* value of at least 0.9.
C19_ProfileIsMaxPerKey ==
  scored.status = "returned" =>
    LET profile == scored.skill_profile
        KeyOf(r) == NormalizeSkillKey(PyStr(r.name))
        Clamped(r) == IF r.confidence_score.v < 0 THEN 0
                      ELSE IF r.confidence_score.v > 100 THEN 100
                      ELSE r.confidence_score.v
        Adjusted(r) == IF r.source = "MANUAL" /\ Clamped(r) < 90 THEN 90 ELSE Clamped(r)
    IN  /\ DOMAIN profile = {KeyOf(r) : r \in employee.skill_set} \ {""}
        /\ \A k \in DOMAIN profile :
             /\ \E r \in employee.skill_set : KeyOf(r) = k /\ Adjusted(r) = profile[k]
             /\ \A r \in employee.skill_set : KeyOf(r) = k => Adjusted(r) <= profile[k]
             /\ profile[k] >= 0
             /\ profile[k] <= 100
             /\ (\E r \in employee.skill_set : KeyOf(r) = k /\ r.source = "MANUAL")
                  => profile[k] >= 90

\* The records ReactJS (CV, 0.5) and react (MANUAL, 0.3) share the key react,
\* which the floor lifts to 0.9; React Native (1.5) is clamped to 1.0; the
\* record "()" has the empty key and no entry.
C19_Witness ==
  /\ scored.status = "returned"
  /\ employee.skill_set = SkillRecords
  /\ scored.skill_profile = ("react" :> 90 @@ "react native" :> 100)

\* C20: the match of a required key r against a profile is
\* 0.45 + 0.55 * confidence(r) when r is a key of the profile; otherwise the
\* largest (0.5 + 0.5 * o) * (0.3 + 0.7 * confidence(k)) over the profile
\* keys k whose Jaccard token overlap o with r is at least 0.34, and 0 when
\* there is no such key or r has no token of two or more characters.  The
\* skill match score is the average of the matches of the required keys.
C20_MatchValue ==
  (scored.status = "returned" /\ scored.normalized_required # <<>>) =>
    LET profile == scored.skill_profile
        required == scored.normalized_required
        Toks(k) == TokenizeSkill(k)
        Both(r, k) == Cardinality(Toks(r) \cap Toks(k))
        Either(r, k) == Cardinality(Toks(r) \cup Toks(k))
        near(r) == {k \in DOMAIN profile :
                      Either(r, k) > 0 /\ 100 * Both(r, k) >= 34 * Either(r, k)}
        \* (0.5 + 0.5 * o) * (0.3 + 0.7 * c) with o = Both / Either, c in hundredths
        Fuzzy(r, k) ==
          (Either(r, k) + Both(r, k)) * (3000 + 70 * profile[k])
            * (Den \div (20000 * Either(r, k)))
        expected(r) ==
          IF r \in DOMAIN profile THEN (4500 + 55 * profile[r]) * (Den \div 10000)
          ELSE IF Toks(r) = {} \/ near(r) = {} THEN 0
          ELSE SetMax({Fuzzy(r, k) : k \in near(r)})
    IN  /\ \A i \in 1..Len(required) : MatchSkill(required[i], profile) = expected(required[i])
        /\ CalculateSkillMatchScore(profile, required) * Len(required)
             = SumSeq([i \in 1..Len(required) |-> expected(required[i])])

\* Required "react native" against the single record React Redux (0.7): the
\* overlap is 1/3, below 0.34, so the match is 0 and the HIGH score is
\* 100 * (0.15 * 0.3 + 0.1 * 1.0) = 14.5.
C20_Witness ==
  /\ scored.status = "returned"
  /\ employee.skill_set = {ReduxRecord}
  /\ scored.skill_profile = ("react redux" :> 70)
  /\ scored.normalized_required = <<"react native">>
  /\ MatchSkill("react native", scored.skill_profile) = 0
  /\ MatchSkill("react", scored.skill_profile) = 3 * (79 * (Den \div 400))
  /\ task.priority = PyStr("HIGH")
  /\ scored.value = 1450

(***************************************************************************)
(* Coverage and the matching skills of a ranking entry (SpecRank).         *)
(***************************************************************************)

\* C21: for a task with n >= 1 required keys, the coverage score of an
\* employee is the number of required keys whose match is at least 0.5
\* divided by n, and the matching_skills of the employee's entry in the
\* result of find_best_matches are the display names of exactly those keys,
\* in the order of the required list, so their number is coverage * n.
C21_CoverageIsMatchingSkills ==
  matches.status = "returned" =>
    LET required == NormalizeRequiredSkills(PyList(task.required_skills))
        n == Len(required)
    IN  n >= 1 =>
          \A m \in 1..Len(matches.value) :
            LET row == CHOOSE j \in 1..Len(employees) :
                         employees[j].id = matches.value[m].employee_id
                profile == BuildSkillProfile(employees[row])
                hits == {i \in 1..n : 2 * MatchSkill(required[i], profile) >= Den}
                listed == matches.value[m].matching_skills
            IN  /\ CalculateCoverageScore(profile, required) * n = Cardinality(hits) * Den
                /\ Len(listed) = Cardinality(hits)
                /\ Len(listed) * Den = CalculateCoverageScore(profile, required) * n
                /\ \A i \in hits :
                     listed[1 + Cardinality({j \in hits : j < i})]
                       = NormalizeSkillName(PyStr(required[i]))

\* The employee with the CV record ReactJS (0.5): "react" matches exactly
\* with 0.725, "react native" by overlap 1/2 with 0.4875, so the coverage
\* is 1/2 and the entry lists React alone.
C21_Witness ==
  /\ matches.status = "returned"
  /\ Len(employees) = 1
  /\ employees[1].id = 2
  /\ task.required_skills = <<"react  native", "reactjs">>
  /\ min_score = 0
  /\ limit >= 1
  /\ Len(matches.value) = 1
  /\ matches.value[1].matching_skills = <<"React">>
  /\ 2 * CalculateCoverageScore(BuildSkillProfile(employees[1]), <<"react native", "react">>)
       = Den

(***************************************************************************)
(* The experience score (SpecScore).                                       *)
(***************************************************************************)

\* C22 as stated: the experience score is the average, over the required
\* keys that have a match (the key is in the profile, or a profile key has
\* token overlap of at least 0.5), of the confidence of a matching profile
\* entry; 0.3 when no required key has a match, 0.5 when none is required.
C22_ExperienceIsAverageConfidence ==
  scored.status = "returned" =>
    LET profile == scored.skill_profile
        required == scored.normalized_required
        experience == CalculateExperienceScore(profile, required)
        Near(r) == {k \in DOMAIN profile :
                      /\ TokenizeSkill(r) \cup TokenizeSkill(k) # {}
                      /\ 2 * Cardinality(TokenizeSkill(r) \cap TokenizeSkill(k))
                           >= Cardinality(TokenizeSkill(r) \cup TokenizeSkill(k))}
        Entries(r) == IF r \in DOMAIN profile THEN {r} ELSE Near(r)
        matched == {i \in 1..Len(required) : Entries(required[i]) # {}}
    IN  IF required = <<>> THEN experience = 5 * (Den \div 10)
        ELSE IF matched = {} THEN experience = 3 * (Den \div 10)
        ELSE \E best \in [matched -> DOMAIN profile] :
               /\ \A i \in matched : best[i] \in Entries(required[i])
               /\ experience * Cardinality(matched)
                    = SumSeq([i \in 1..Len(required) |->
                                IF i \in matched THEN profile[best[i]] * (Den \div 100) ELSE 0])

\* C22: the experience score is the average of the positive values of the
\* required keys, where the value of a key in the profile is its confidence
\* and the value of another key is the largest confidence * overlap over
\* the profile keys with token overlap of at least 0.5 (0 when there is
\* none); it is 0.3 when no required key has a positive value and 0.5 when
\* none is required.
C22_ExperienceIsAverageScaled ==
  scored.status = "returned" =>
    LET profile == scored.skill_profile
        required == scored.normalized_required
        experience == CalculateExperienceScore(profile, required)
        Both(r, k) == Cardinality(TokenizeSkill(r) \cap TokenizeSkill(k))
        Either(r, k) == Cardinality(TokenizeSkill(r) \cup TokenizeSkill(k))
        Near(r) == {k \in DOMAIN profile : Either(r, k) > 0 /\ 2 * Both(r, k) >= Either(r, k)}
        Value(r) ==
          IF r \in DOMAIN profile THEN profile[r] * (Den \div 100)
          ELSE IF Near(r) = {} THEN 0
          ELSE SetMax({profile[k] * Both(r, k) * (Den \div (100 * Either(r, k))) : k \in Near(r)})
        counted == {i \in 1..Len(required) : Value(required[i]) > 0}
    IN  IF required = <<>> THEN experience = 5 * (Den \div 10)
        ELSE IF counted = {} THEN experience = 3 * (Den \div 10)
        ELSE experience * Cardinality(counted)
               = SumSeq([i \in 1..Len(required) |-> Value(required[i])])

\* Required "react native" against the manual record react: the profile has
\* react at 0.9, the overlap is 1/2, and the experience score is 0.45.
C22_Witness ==
  /\ scored.status = "returned"
  /\ scored.normalized_required = <<"react native">>
  /\ scored.skill_profile = ("react" :> 90)
  /\ CalculateExperienceScore(scored.skill_profile, scored.normalized_required)
       = 45 * (Den \div 100)

(***************************************************************************)
(* Workload (SpecScore).                                                   *)
(***************************************************************************)

\* C23: with a the number of an employee's assignments in status ASSIGNED,
\* IN_PROGRESS or BLOCKED, current_workload is min(100, 100 * a / 5) and the
\* workload score is (1 - workload/100) * m clamped to [0,1], with m = 0.7
\* from 90%, 0.85 from 80% and 1 below; the score does not increase with a
\* and is 0 from a = 5 on.
C23_WorkloadFromActive ==
  LET Expected(a) ==
        LET w == IF 20 * a > 100 THEN 100 ELSE 20 * a
            m == IF w >= 90 THEN 70 ELSE IF w >= 80 THEN 85 ELSE 100
            x == (100 - w) * m * (Den \div 10000)
        IN  [workload |-> w, score |-> IF x < 0 THEN 0 ELSE IF x > Den THEN Den ELSE x]
      With(a) == [id |-> 1, skill_set |-> {}, assignments |-> [i \in 1..a |-> "ASSIGNED"]]
  IN  /\ \A a \in 0..MaxActive :
           /\ CurrentWorkload(With(a)) = Expected(a).workload
           /\ CalculateWorkloadScore(With(a)) = Expected(a).score
           /\ a >= 5 => CalculateWorkloadScore(With(a)) = 0
           /\ a >= 1 => CalculateWorkloadScore(With(a)) <= CalculateWorkloadScore(With(a - 1))
      /\ scored.status = "returned" =>
           LET a == Cardinality({i \in 1..Len(employee.assignments) :
                                   employee.assignments[i] \in {"ASSIGNED", "IN_PROGRESS", "BLOCKED"}})
           IN  /\ CurrentWorkload(employee) = Expected(a).workload
               /\ CalculateWorkloadScore(employee) = Expected(a).score
               /\ scored.normalized_required = <<>>
                    => scored.value * (Den \div 10000) = Expected(a).score

\* An employee with four active assignments is at 80%, in the 0.85 band:
\* the workload score is 0.2 * 0.85 = 0.17, the score for a task without
\* required skills 17.0.
C23_Witness ==
  /\ scored.status = "returned"
  /\ employee.assignments = <<"ASSIGNED", "IN_PROGRESS", "BLOCKED", "ASSIGNED">>
  /\ CurrentWorkload(employee) = 80
  /\ CalculateWorkloadScore(employee) = 17 * (Den \div 100)
  /\ scored.normalized_required = <<>>
  /\ scored.value = 1700

(***************************************************************************)
(* Task assignment: the Task and TaskAssignment tables (core/models.py),   *)
(* the post_save handler of Task (core/signals.py) and assign_task         *)
(* (core/views.py).  A table is a function from row keys to the status of  *)
(* the row, "absent" where the table has no such row.  TaskAssignment is   *)
(* unique on (task, employee), so its rows are keyed by that pair.         *)
(***************************************************************************)
MaxStaff == 2         \* number of Employee rows

TaskIds == {"t1", "t2"}
EmployeeIds == 1..MaxStaff
TaskStatuses ==
  {"DRAFT", "UNASSIGNED", "ASSIGNED", "IN_PROGRESS", "BLOCKED", "COMPLETED",
   "CANCELLED"}
AssignmentStatuses ==
  {"ASSIGNED", "IN_PROGRESS", "BLOCKED", "COMPLETED", "CANCELLED"}
active_statuses == {"ASSIGNED", "IN_PROGRESS", "BLOCKED"}
AssignmentRows == TaskIds \X EmployeeIds
NoRows == [row \in AssignmentRows |-> "absent"]

\* TaskAssignment.objects.filter(task=t, status__in=active_statuses)
ActiveRows(table, t) ==
  {row \in AssignmentRows : row[1] = t /\ table[row] \in active_statuses}

\* Employee.current_workload: the rows of the employee the count runs over.
ActiveTasks(table, e) ==
  {row \in AssignmentRows : row[2] = e /\ table[row] \in active_statuses}

\* A handler that leaves COMPLETED tasks alone.
sync_assignment_status_CancelOnly(table, t, status, created) ==
  IF created THEN table
  ELSE IF status \in {"CANCELLED", "BLOCKED"}
       THEN [row \in AssignmentRows |->
               IF row \in ActiveRows(table, t) THEN status ELSE table[row]]
       ELSE table

\* sync_assignment_status(sender, instance, created): the TaskAssignment
\* table after the post_save handler of a save of task t with that status.
sync_assignment_status(table, t, status, created) ==
  IF created THEN table
  ELSE IF status \in {"CANCELLED", "COMPLETED", "BLOCKED"}
       THEN [row \in AssignmentRows |->
               IF row \in ActiveRows(table, t) THEN status ELSE table[row]]
       ELSE table

\* An update that leaves BLOCKED assignments of other employees active.
CancelOthers_KeepBlocked(table, t, e) ==
  [row \in AssignmentRows |->
     IF row \in ActiveRows(table, t) /\ row[2] # e /\ table[row] # "BLOCKED"
     THEN "CANCELLED" ELSE table[row]]

\* filter(task=t, status__in=active_statuses).exclude(employee=e)
\*   .update(status="CANCELLED")
CancelOthers(table, t, e) ==
  [row \in AssignmentRows |->
     IF row \in ActiveRows(table, t) /\ row[2] # e
     THEN "CANCELLED" ELSE table[row]]

\* get_or_create(task=t, employee=e, defaults={..., "status": "ASSIGNED"})
GetOrCreate(table, t, e) ==
  IF table[<<t, e>>] = "absent"
  THEN [created |-> TRUE, table |-> [table EXCEPT ![<<t, e>>] = "ASSIGNED"]]
  ELSE [created |-> FALSE, table |-> table]

\* if not created: assignment.status = "ASSIGNED"; assignment.save()
SaveAssignment(table, t, e) == [table EXCEPT ![<<t, e>>] = "ASSIGNED"]

\* The requests that may run at the same time and their transactions: the
\* statement the request has reached (pc), its task and employee, and the
\* rows it has written and not yet committed.
Requests == {"r1", "r2"}
NoWrites == [row \in AssignmentRows |-> "none"]
IdleTxn ==
  [pc |-> "idle", task |-> "", employee |-> 0, writes |-> NoWrites,
   task_write |-> "none"]

engineVars == <<normVars, extractVars, repeatVars, scoreVars, rankVars, task>>
EngineIdle ==
  NormIdle /\ ExtractIdle /\ RepeatIdle /\ ScoreIdle /\ RankIdle /\ TaskIdle

\* What a statement of request r reads under READ COMMITTED: the committed
\* rows, overlaid with the rows r itself has written.
View(r) ==
  [row \in AssignmentRows |->
     IF txn[r].writes[row] # "none" THEN txn[r].writes[row]
     ELSE assignment_table[row]]

\* A row written by another open transaction is locked until that commits.
LockedByOther(r, row) ==
  \E o \in Requests \ {r} : txn[o].writes[row] # "none"

TaskLockedByOther(r, t) ==
  \E o \in Requests \ {r} : txn[o].task = t /\ txn[o].task_write # "none"

\* TaskViewSet.create: Task.objects.create, the post_save handler runs with
\* created = True.
CreateTask(t, status) ==
  /\ task_table[t] = "absent"
  /\ task_table' = [task_table EXCEPT ![t] = status]
  /\ assignment_table' = sync_assignment_status(assignment_table, t, status, TRUE)
  /\ UNCHANGED <<txn, engineVars, uploadVars>>

\* TaskViewSet.update / partial_update with a status: task.save() and its
\* post_save handler.  The two UPDATE statements wait for the locks open
\* transactions hold on the task row and on the rows the handler updates.
UpdateTask(t, status) ==
  /\ task_table[t] # "absent"
  /\ \A r \in Requests :
       /\ ~(txn[r].task = t /\ txn[r].task_write # "none")
       /\ \A row \in ActiveRows(assignment_table, t) : txn[r].writes[row] = "none"
  /\ task_table' = [task_table EXCEPT ![t] = status]
  /\ assignment_table' = sync_assignment_status(assignment_table, t, status, FALSE)
  /\ UNCHANGED <<txn, engineVars, uploadVars>>

\* assign_task(request, pk = t) with employee_id = e, run with no other
\* request in flight: the whole transaction.atomic() block.
AssignTask(t, e) ==
  /\ task_table[t] # "absent"
  /\ \A r \in Requests : txn[r].pc = "idle"
  /\ task_table' = [task_table EXCEPT ![t] = "ASSIGNED"]
  /\ LET cancelled == CancelOthers(assignment_table, t, e)
         got == GetOrCreate(cancelled, t, e)
         saved == IF got.created THEN got.table
                  ELSE SaveAssignment(got.table, t, e)
     IN  assignment_table' = sync_assignment_status(saved, t, "ASSIGNED", FALSE)
  /\ UNCHANGED <<txn, engineVars, uploadVars>>

InitAssign ==
  /\ task_table = [t \in TaskIds |-> "absent"]
  /\ assignment_table = NoRows
  /\ txn = [r \in Requests |-> IdleTxn]
  /\ EngineIdle /\ UploadIdle

\* The statuses the post_save handler names: each of its branches is taken
\* by one of them, and every other status goes the way of IN_PROGRESS.
HandledStatuses == {"CANCELLED", "COMPLETED", "BLOCKED", "IN_PROGRESS"}

NextAssign ==
  \/ \E t \in TaskIds, status \in TaskStatuses : CreateTask(t, status)
  \/ \E t \in TaskIds, status \in HandledStatuses : UpdateTask(t, status)
  \/ \E t \in TaskIds, e \in EmployeeIds : AssignTask(t, e)

SpecAssign == InitAssign /\ [][NextAssign]_vars

\* C26: with assign_task requests run one at a time, interleaved with task
\* status updates, every task has at most one assignment in an active
\* status; directly after assign_task(t, e) that assignment is the one of e
\* with status ASSIGNED, every other assignment of t that was active is
\* CANCELLED, and the status of the task is ASSIGNED.
C26_OneActiveAssignment ==
  /\ [](\A t \in TaskIds : Cardinality(ActiveRows(assignment_table, t)) <= 1)
  /\ [][\A t \in TaskIds, e \in EmployeeIds :
          AssignTask(t, e) =>
            /\ assignment_table'[<<t, e>>] = "ASSIGNED"
            /\ ActiveRows(assignment_table', t) = {<<t, e>>}
            /\ \A row \in ActiveRows(assignment_table, t) \ {<<t, e>>} :
                 assignment_table'[row] = "CANCELLED"
            /\ task_table'[t] = "ASSIGNED"]_vars

\* A task that was reassigned: the earlier assignment is cancelled, the new
\* one is the only active one, and a blocked assignment of the other task.
C26_Witness ==
  /\ task_table["t1"] = "ASSIGNED"
  /\ assignment_table[<<"t1", 1>>] = "CANCELLED"
  /\ assignment_table[<<"t1", 2>>] = "ASSIGNED"
  /\ assignment_table[<<"t2", 1>>] = "BLOCKED"

(***************************************************************************)
(* assign_task under concurrent requests.  gunicorn serves with 2 workers  *)
(* of 4 threads, every request thread has its own database connection,     *)
(* and the database is PostgreSQL at its default isolation level, READ     *)
(* COMMITTED: a statement reads the rows committed when it runs and the    *)
(* rows its own transaction has written; a row written by an open          *)
(* transaction is locked, and a statement that has to write it waits for   *)
(* the commit.  Each statement of the transaction.atomic() block is one    *)
(* step.                                                                   *)
(***************************************************************************)
ContendedTask == "t1"

\* assign_task up to the entry of the atomic block: get_object, the
\* Employee lookup and the score.
BeginAssign(r, t, e) ==
  /\ txn[r].pc = "idle"
  /\ task_table[t] # "absent"
  /\ txn' = [txn EXCEPT ![r] = [IdleTxn EXCEPT !.pc = "atomic", !.task = t,
                                               !.employee = e]]
  /\ UNCHANGED <<task_table, assignment_table, engineVars, uploadVars>>

\* The UPDATE that cancels the active assignments of the other employees.
CancelStatement(r) ==
  /\ txn[r].pc = "atomic"
  /\ LET t == txn[r].task
         e == txn[r].employee
         after == CancelOthers(View(r), t, e)
         written == {row \in AssignmentRows : after[row] # View(r)[row]}
     IN  /\ \A row \in written : ~LockedByOther(r, row)
         /\ txn' = [txn EXCEPT ![r].pc = "cancelled",
                               ![r].writes = [row \in AssignmentRows |->
                                   IF row \in written THEN after[row]
                                   ELSE txn[r].writes[row]]]
  /\ UNCHANGED <<task_table, assignment_table, engineVars, uploadVars>>

\* get_or_create: the SELECT and, where it finds no row, the INSERT, which
\* waits while another open transaction has inserted the same key.
GetOrCreateStatement(r) ==
  /\ txn[r].pc = "cancelled"
  /\ LET t == txn[r].task
         e == txn[r].employee
         got == GetOrCreate(View(r), t, e)
     IN  IF got.created
         THEN /\ ~LockedByOther(r, <<t, e>>)
              /\ txn' = [txn EXCEPT ![r].pc = "assigned",
                                    ![r].writes[<<t, e>>] = got.table[<<t, e>>]]
         ELSE txn' = [txn EXCEPT ![r].pc = "got"]
  /\ UNCHANGED <<task_table, assignment_table, engineVars, uploadVars>>

\* if not created: ...; assignment.save()
SaveAssignmentStatement(r) ==
  /\ txn[r].pc = "got"
  /\ LET t == txn[r].task
         e == txn[r].employee
     IN  /\ ~LockedByOther(r, <<t, e>>)
         /\ txn' = [txn EXCEPT ![r].pc = "assigned",
                               ![r].writes[<<t, e>>] =
                                   SaveAssignment(View(r), t, e)[<<t, e>>]]
  /\ UNCHANGED <<task_table, assignment_table, engineVars, uploadVars>>

\* task.status = "ASSIGNED"; task.save(), with its post_save handler.
SaveTaskStatement(r) ==
  /\ txn[r].pc = "assigned"
  /\ ~TaskLockedByOther(r, txn[r].task)
  /\ LET after == sync_assignment_status(View(r), txn[r].task, "ASSIGNED", FALSE)
     IN  txn' = [txn EXCEPT ![r].pc = "saved",
                            ![r].task_write = "ASSIGNED",
                            ![r].writes = [row \in AssignmentRows |->
                                IF after[row] # View(r)[row] THEN after[row]
                                ELSE txn[r].writes[row]]]
  /\ UNCHANGED <<task_table, assignment_table, engineVars, uploadVars>>

\* The end of the atomic block: the writes of the transaction are committed.
Commit(r) ==
  /\ txn[r].pc = "saved"
  /\ assignment_table' = View(r)
  /\ task_table' = [task_table EXCEPT ![txn[r].task] = txn[r].task_write]
  /\ txn' = [txn EXCEPT ![r] = IdleTxn]
  /\ UNCHANGED <<engineVars, uploadVars>>

\* Two tasks exist.  The requests are for one of them; the other one is in
\* progress, with the assignment of its employee set to IN_PROGRESS.
InitConcurrent ==
  /\ task_table = [t \in TaskIds |->
                     IF t = ContendedTask THEN "UNASSIGNED" ELSE "IN_PROGRESS"]
  /\ assignment_table =
       [row \in AssignmentRows |->
          IF row[1] # ContendedTask /\ row[2] = 1 THEN "IN_PROGRESS" ELSE "absent"]
  /\ txn = [r \in Requests |-> IdleTxn]
  /\ EngineIdle /\ UploadIdle

NextConcurrent ==
  \/ \E r \in Requests, e \in EmployeeIds : BeginAssign(r, ContendedTask, e)
  \/ \E r \in Requests : CancelStatement(r)
  \/ \E r \in Requests : GetOrCreateStatement(r)
  \/ \E r \in Requests : SaveAssignmentStatement(r)
  \/ \E r \in Requests : SaveTaskStatement(r)
  \/ \E r \in Requests : Commit(r)
  \/ \E status \in TaskStatuses : UpdateTask(ContendedTask, status)

SpecConcurrent == InitConcurrent /\ [][NextConcurrent]_vars

\* C27: two assign_task requests for the same task and different employees
\* whose transactions interleave never leave the task with two active
\* assignments once both have completed.
C27_NoTwoActiveAfterBoth ==
  (\A r \in Requests : txn[r].pc = "idle") =>
    \A t \in TaskIds : Cardinality(ActiveRows(assignment_table, t)) <= 1

\* C24: a save of an existing task with status CANCELLED or COMPLETED gives
\* that status to every assignment of the task that was ASSIGNED,
\* IN_PROGRESS or BLOCKED, so that afterwards no assignment of the task
\* counts toward the current_workload of any employee; the assignments of
\* other tasks and the assignments that were inactive stay as they were.
C24_ClosedTaskReleasesAssignments ==
  [][\A t \in TaskIds, status \in {"CANCELLED", "COMPLETED"} :
       UpdateTask(t, status) =>
         /\ \A row \in AssignmentRows :
              assignment_table'[row] =
                IF row \in ActiveRows(assignment_table, t) THEN status
                ELSE assignment_table[row]
         /\ \A e \in EmployeeIds :
              \A row \in ActiveTasks(assignment_table', e) : row[1] # t]_vars

\* The task was completed and its assignments took the status; the
\* assignment of the other task is still in progress.
C24_Witness ==
  /\ task_table[ContendedTask] = "COMPLETED"
  /\ assignment_table[<<ContendedTask, 1>>] = "COMPLETED"
  /\ assignment_table[<<ContendedTask, 2>>] = "COMPLETED"
  /\ assignment_table[<<"t2", 1>>] = "IN_PROGRESS"
  /\ ActiveTasks(assignment_table, 1) = {<<"t2", 1>>}

(***************************************************************************)
(* CV upload: upload_cv and its background thread process_cv               *)
(* (core/views.py), over the CV row and the Skill rows of one employee     *)
(* (core/models.py).  A Skill row is a record (name, source,               *)
(* confidence_score); the table is unique on the name.  cv.save() writes   *)
(* every field of the instance the thread holds.  The text of a document   *)
(* is what the parser returns for it.                                      *)
(***************************************************************************)
MaxUploads == 2       \* uploads accepted in one behaviour

\* The uploaded files: the name, what the content is, and the text the
\* parser extracts from it (None when it finds no text).
UploadedFiles ==
  { [name |-> "cv.pdf", content |-> "pdf", text |-> PyStr("Python")],
    [name |-> "CV.DOCX", content |-> "docx", text |-> PyStr("SQL and Docker")],
    [name |-> "scan.pdf", content |-> "pdf", text |-> PyNone],
    [name |-> "word.pdf", content |-> "docx", text |-> PyStr("Python")],
    [name |-> "fake.pdf", content |-> "other", text |-> PyNone],
    [name |-> "notes.txt", content |-> "pdf", text |-> PyStr("Python")] }

EndsWith(s, suffix) ==
  /\ Len(s) >= Len(suffix)
  /\ SubSeq(s, Len(s) - Len(suffix) + 1, Len(s)) = suffix

is_valid_pdf(f) == f.content = "pdf"
is_valid_docx(f) == f.content = "docx"
extract_text_from_pdf(f) == IF f.content = "pdf" THEN f.text ELSE PyNone
extract_text_from_docx(f) == IF f.content = "docx" THEN f.text ELSE PyNone

\* upload_cv: the checks of the file name and of the file content.
Accepted(f) ==
  /\ EndsWith(StrLower(f.name), ".pdf") \/ EndsWith(StrLower(f.name), ".docx")
  /\ is_valid_pdf(f) \/ is_valid_docx(f)

\* process_cv: the text read from the stored file.
ExtractedText(f) ==
  IF EndsWith(StrLower(f.name), ".pdf") /\ is_valid_pdf(f)
  THEN extract_text_from_pdf(f)
  ELSE IF EndsWith(StrLower(f.name), ".docx") THEN extract_text_from_docx(f)
  ELSE IF is_valid_pdf(f) THEN extract_text_from_pdf(f)
  ELSE extract_text_from_docx(f)

\* extractor.extract_skills(extracted_text) for the texts of the files, with
\* each name passed through normalize_skill_name, as Skill rows.
CVTexts == {f.text.v : f \in {g \in UploadedFiles : Truthy(g.text)}}

SkillsData ==
  [t \in CVTexts |->
     {ExtractSkills(PyStr(t), DEFAULT_MIN_CONFIDENCE, c) :
        c \in CompoundResults(PyStr(t))}]

\* Skill.objects.filter(employee=employee, source="CV").delete()
DeleteCVSkills(rows) == {r \in rows : r.source # "CV"}

\* Skill.objects.update_or_create(employee=employee, name=skill_name,
\*   defaults={"source": "CV", "confidence_score": ...}): the row with that
\* name is updated, whatever its source, or a row is created.
update_or_create(rows, name, confidence) ==
  {r \in rows : r.name # name}
    \cup {[name |-> name, source |-> "CV", confidence_score |-> PyFloat(confidence)]}

\* for skill_data in skills_data: update_or_create(...)
RECURSIVE StoreSkills(_, _, _)
StoreSkills(rows, skills_data, i) ==
  IF i > Len(skills_data) THEN rows
  ELSE StoreSkills(
         update_or_create(rows, NormalizeSkillName(PyStr(skills_data[i].name)),
                          skills_data[i].confidence_score),
         skills_data, i + 1)

\* The body of the atomic block on the Skill table.
ReplaceCVSkills(rows, skills_data) ==
  StoreSkills(DeleteCVSkills(rows), skills_data, 1)

\* A process_cv that returns without a save when it finds no text.
AfterExtraction_SilentReturn(instance, outcome) ==
  IF outcome.status = "raised"
  THEN [cv |-> [instance EXCEPT !.status = "FAILED"], pc |-> "done"]
  ELSE IF ~Truthy(outcome.value)
  THEN [cv |-> instance, pc |-> "done"]
  ELSE [cv |-> [instance EXCEPT !.extracted_text = outcome.value,
                                !.status = "READY"],
        pc |-> "ready"]

\* process_cv from the read of the file to its first cv.save(): the fields
\* that save writes and where the thread goes on.
AfterExtraction(instance, outcome) ==
  IF outcome.status = "raised"
  THEN [cv |-> [instance EXCEPT !.status = "FAILED"], pc |-> "done"]
  ELSE IF ~Truthy(outcome.value)
  THEN [cv |-> [instance EXCEPT !.status = "FAILED"], pc |-> "done"]
  ELSE [cv |-> [instance EXCEPT !.extracted_text = outcome.value,
                                !.status = "READY"],
        pc |-> "ready"]

\* Skill rows entered by hand: created with source MANUAL and confidence 1.0.
ManualSkills ==
  { [name |-> n, source |-> "MANUAL", confidence_score |-> PyFloat(100)] :
      n \in {"Python", "Kotlin"} }

\* upload_cv(request) with an accepted file: the CV row is fetched or
\* created, saved with the file and status PROCESSING, and the thread is
\* started with that instance.
UploadCV(f) ==
  /\ Len(threads) < MaxUploads
  /\ Accepted(f)
  /\ cv' = [cv EXCEPT !.file = f.name, !.status = "PROCESSING"]
  /\ threads' = Append(threads, [pc |-> "started", cv |-> cv'])
  /\ UNCHANGED <<skill_table, engineVars, assignVars>>

\* process_cv: cv.refresh_from_db()
Refresh(i) ==
  /\ threads[i].pc = "started"
  /\ threads' = [threads EXCEPT ![i].pc = "refreshed", ![i].cv = cv]
  /\ UNCHANGED <<cv, skill_table, engineVars, assignVars>>

\* process_cv: the file is opened and read, the text is extracted, and the
\* first cv.save() stores READY with the text, or FAILED.  Opening the
\* stored file may raise.
ExtractText(i, readable) ==
  /\ threads[i].pc = "refreshed"
  /\ LET f == CHOOSE g \in UploadedFiles : g.name = threads[i].cv.file
         outcome == IF readable THEN Returned(ExtractedText(f))
                    ELSE Raised("FileNotFoundError")
         after == AfterExtraction(threads[i].cv, outcome)
     IN  /\ cv' = after.cv
         /\ threads' = [threads EXCEPT ![i].pc = after.pc, ![i].cv = after.cv]
  /\ UNCHANGED <<skill_table, engineVars, assignVars>>

\* process_cv after the save of READY: extract_skills, the atomic block
\* that replaces the CV rows, and the except clause.  An exception in the
\* block (extract_details and predict_role_with_ai import spacy and joblib
\* outside their try blocks; a database error) rolls the block back and
\* saves FAILED.
ReplaceSkills(i, raises) ==
  /\ threads[i].pc = "ready"
  /\ \E skills_data \in SkillsData[threads[i].cv.extracted_text.v] :
       IF skills_data.status = "returned" /\ ~raises
       THEN /\ skill_table' = ReplaceCVSkills(skill_table, skills_data.value)
            /\ threads' = [threads EXCEPT ![i].pc = "done"]
            /\ UNCHANGED cv
       ELSE /\ cv' = [threads[i].cv EXCEPT !.status = "FAILED"]
            /\ threads' = [threads EXCEPT ![i].pc = "done", ![i].cv = cv']
            /\ UNCHANGED skill_table
  /\ UNCHANGED <<engineVars, assignVars>>

InitUpload ==
  /\ cv = [status |-> "NOT_UPLOADED", file |-> "", extracted_text |-> PyNone]
  /\ skill_table \in SUBSET ManualSkills
  /\ threads = <<>>
  /\ EngineIdle /\ AssignIdle

NextUpload ==
  \/ \E f \in UploadedFiles : UploadCV(f)
  \/ \E i \in DOMAIN threads : Refresh(i)
  \/ \E i \in DOMAIN threads, readable \in BOOLEAN : ExtractText(i, readable)
  \/ \E i \in DOMAIN threads, raises \in BOOLEAN : ReplaceSkills(i, raises)

SpecUpload == InitUpload /\ [][NextUpload]_vars

\* C28: upload_cv sets the CV status to PROCESSING when it accepts a file,
\* and when every processing thread has run to completion the status is
\* READY or FAILED, never PROCESSING.
C28_ProcessingEndsTerminal ==
  /\ []((Len(threads) > 0 /\ \A i \in DOMAIN threads : threads[i].pc = "done")
          => cv.status \in {"READY", "FAILED"})
  /\ [][\A f \in UploadedFiles : UploadCV(f) => cv'.status = "PROCESSING"]_vars

\* Two uploads were processed: the scan failed with no text, the last
\* thread to finish stored READY.
C28_Witness ==
  /\ Len(threads) = MaxUploads
  /\ \A i \in DOMAIN threads : threads[i].pc = "done"
  /\ \E i \in DOMAIN threads : threads[i].cv.status = "FAILED"
  /\ cv.status = "READY"

\* C25: processing an uploaded CV deletes the CV-sourced skill rows and
\* recreates them from the new extraction, and every MANUAL row keeps its
\* name, source and confidence.
C25_ManualRecordsKept ==
  [][\A i \in DOMAIN threads :
       ReplaceSkills(i, FALSE) =>
         /\ \A r \in skill_table : r.source = "MANUAL" => r \in skill_table'
         /\ \E skills_data \in SkillsData[threads[i].cv.extracted_text.v] :
              {r \in skill_table' : r.source = "CV"} =
                {[name |-> skills_data.value[k].name, source |-> "CV",
                  confidence_score |-> PyFloat(skills_data.value[k].confidence_score)] :
                   k \in DOMAIN skills_data.value}]_vars

\* C29: whenever the CV status is READY, the CV-sourced skill rows are the
\* ones extracted from the extracted_text of the CV, and a CV that became
\* READY does not become FAILED without a new upload.
C29_ReadyMeansSkillsReplaced ==
  /\ [](cv.status = "READY" =>
          \E skills_data \in SkillsData[cv.extracted_text.v] :
            {r \in skill_table : r.source = "CV"} =
              {[name |-> skills_data.value[k].name, source |-> "CV",
                confidence_score |-> PyFloat(skills_data.value[k].confidence_score)] :
                 k \in DOMAIN skills_data.value})
  /\ [][(cv.status = "READY" /\ Len(threads') = Len(threads)
           /\ \A i \in DOMAIN threads : threads[i].cv.file = cv.file)
          => cv'.status # "FAILED"]_vars

(***************************************************************************)
(* The score against the skill records of the employee.                    *)
(***************************************************************************)
\* The employee with one more Skill row, and with the confidence of a row
\* raised to c.
WithRecord(e, r) == [e EXCEPT !.skill_set = @ \cup {r}]
WithConfidence(e, r, c) ==
  [e EXCEPT !.skill_set =
     (@ \ {r}) \cup {[r EXCEPT !.confidence_score = PyFloat(c)]}]

\* The rows that can be added to the employee (Skill is unique on the name)
\* and the confidences a row can be raised to.
AddableRecords(e) ==
  {r \in SkillRecords \cup ManualRecords \cup ZeroRecords \cup {ReduxRecord} :
     \A x \in e.skill_set : x.name # r.name}
RaisedConfidences(r) == {c \in {1, 50, 100} : c > r.confidence_score.v}

\* The total score of the call for employee e, before round(total * 100, 2),
\* with the normalized required skills of the scored call, and the
\* comparison of a changed employee with the scored one, whose total is
\* base: the total is not lower, and where it is higher no score the call
\* can return is lower than the returned one.
TotalOf(e) ==
  CalculateTotalScore(e, scored.normalized_required, BuildSkillProfile(e),
                      GetWeights(task.priority))
NotLower(e, base) ==
  LET total == TotalOf(e)
  IN  /\ total >= base
      /\ total > base => \A v \in RoundScore(total) : v >= scored.value

\* C30 as stated: adding a skill record to the employee, or raising the
\* confidence of one of its records, with the workload unchanged, never
\* lowers the suitability score.
C30_MonotoneInSkills ==
  scored.status = "returned" =>
    LET base == TotalOf(employee)
    IN  /\ \A r \in AddableRecords(employee) : NotLower(WithRecord(employee, r), base)
        /\ \A r \in employee.skill_set : \A c \in RaisedConfidences(r) :
             NotLower(WithConfidence(employee, r, c), base)

\* C30, amended: raising the confidence of a record that already
\* contributes a confidence above 0 to the profile never lowers the
\* suitability score.
C30_RaisingPositiveConfidence ==
  scored.status = "returned" =>
    LET base == TotalOf(employee)
    IN  \A r \in {x \in employee.skill_set : RecordConfidence(x) > 0} :
          \A c \in RaisedConfidences(r) :
            NotLower(WithConfidence(employee, r, c), base)

\* A scored employee one of whose records has a positive confidence, and
\* raising it to 1.0 gives a higher score.
C30_Witness ==
  /\ scored.status = "returned"
  /\ scored.normalized_required # <<>>
  /\ \E r \in employee.skill_set :
       /\ RecordConfidence(r) > 0
       /\ r.confidence_score.v < 100
       /\ \A v \in CalculateSuitabilityScore(WithConfidence(employee, r, 100), task,
                                             required_skills) :
            v > scored.value

=============================================================================
